---- MODULE Spec2Model ----
(***************************************************************************)
(* Model of the ChatRoom server: the per-connection ClientHandler tasks,   *)
(* the ConnectionManager registry and the MessageManager fan-out, as one   *)
(* state machine.  The handlers are asyncio coroutines of one event loop:  *)
(* a handler runs without interruption from one await that really          *)
(* suspends (a socket read, a database call) to the next one, so each      *)
(* action below is one such segment of a handler.                          *)
(***************************************************************************)
EXTENDS Integers, Sequences, FiniteSets, TLC

\* ---------------------------------------------------------------- bounds
MaxMsgs == 2
MaxObjs == 2
MaxPrivate == 2
MaxRows == 3
MaxTime == 2
MaxFiles == 3
DefaultLimit == 50

Conns == {1, 2, 3}
Users == {"alice", "bob", "carol"}
None == "none"
NoConn == 0
Contents == {"hi", " "}

VARIABLES
    pc,             \* position of each connection's handler task
    username,       \* ClientHandler.username
    authenticated,  \* ClientHandler.authenticated
    request,        \* the request _handle_authentication has read
    message,        \* the chat message _process_message is working on
    clients,        \* ConnectionManager.clients, in insertion order
    sockOpen,       \* the server's end of each socket is not yet close()d
    response,       \* the answer the handler gave to the login request
    sent,           \* what the last handler segment wrote to each socket, in order
    disconnected_clients, \* the names whose write raised in that segment
    messages,       \* the global_messages table, in insertion order
    conversations,  \* the private_conversations table, in insertion order
    private_messages, \* the private_messages table, in insertion order
    private,        \* the private message send_private_message is working on
    call,           \* the request whose handling returned in the last segment
    reply,          \* what that handling returned
    stream,         \* the request objects a peer sends, in order
    wire,           \* the bytes of the stream the receive loop has not read yet
    buffer,         \* the receive buffer of _handle_messages
    dispatched,     \* the requests the receive loop has dispatched, in order
    looping,        \* the receive loop has not been left
    users,          \* the users table: the username of each row, in insertion order
    disk,           \* the files under uploads/: the bytes at each stored path
    files,          \* the files table, in insertion order
    upload,         \* the file broadcast_file is working on
    incoming,       \* the objects the server sends a client, in order
    inflight,       \* the bytes of them the client's socket has not yielded yet
    recv_buffer,    \* NetworkThread._recv_buffer
    received,       \* the objects receive_data has returned, in order
    pages           \* the pages of room history a paging run has been returned, in order

sessionVars == <<pc, username, authenticated, request, message, response, clients,
                 sockOpen, sent, disconnected_clients, messages>>
privateVars == <<conversations, private_messages, private, call, reply>>
frameVars == <<stream, wire, buffer, dispatched, looping>>
storeVars == <<users, disk, files, upload>>
clientVars == <<incoming, inflight, recv_buffer, received, pages>>
vars == <<sessionVars, privateVars, frameVars, storeVars, clientVars>>

\* ------------------------------------------------------------- envelopes
Envelope(t, u, c) == [type |-> t, username |-> u, content |-> c, users |-> <<>>]
UserListEnvelope(us) == [type |-> "user_list", username |-> None, content |-> None, users |-> us]
LoginSuccess(u) == Envelope("login_success", u, "ok")
LoginFailed(why) == Envelope("login_failed", None, why)
ErrorResponse(why) == Envelope("error", None, why)
SystemMessage(u, what) == Envelope("system", u, what)
TextMessage(u, c) == Envelope("text", u, c)
NoResponse == Envelope(None, None, None)

NoRequest == [type |-> None, username |-> None, ok |-> FALSE]

\* a request to a handler of MessageHandler, and what the handler returns
Call(c, route, type, receiver, content) ==
    [conn |-> c, route |-> route, type |-> type, receiver |-> receiver,
     content |-> content, conversation_id |-> 0, message_id |-> 0, limit |-> 0,
     filename |-> <<>>, data |-> None]
NoCall == Call(NoConn, None, None, None, None)
Reply(type, why, msgs) == [type |-> type, message |-> why, messages |-> msgs]
NoReply == Reply(None, None, <<>>)
NoPrivate == [receiver |-> None, content |-> None, conversation_id |-> 0]
NoPath == [owner |-> None, name |-> <<>>]
NoUpload == [type |-> None, filename |-> <<>>, data |-> None, file_path |-> NoPath, file_id |-> 0]
LoginRequest(u, ok) == [type |-> "login", username |-> u, ok |-> ok]
OtherRequest == [type |-> "other", username |-> None, ok |-> FALSE]

\* ------------------------------------------------------ ConnectionManager
Keys(cl) == {cl[i].username : i \in 1..Len(cl)}

is_client_connected(cl, u) == u \in Keys(cl)

get_client(cl, u) == (CHOOSE i \in 1..Len(cl) : cl[i].username = u)

get_all_usernames(cl) == [i \in 1..Len(cl) |-> cl[i].username]

Remove(cl, u) == SelectSeq(cl, LAMBDA e : e.username # u)

\* a registry that takes a second session for a name next to the first
register_client_append(cl, u, s) ==
    [clients |-> Append(cl, [username |-> u, socket |-> s]), ok |-> TRUE]

\* a registry in which a second login takes the name over
register_client_overwrite(cl, u, s) ==
    [clients |-> Append(Remove(cl, u), [username |-> u, socket |-> s]), ok |-> TRUE]

\* register_client: the new registry and the returned flag
register_client(cl, u, s) ==
    IF u \in Keys(cl)
    THEN [clients |-> cl, ok |-> FALSE]
    ELSE [clients |-> Append(cl, [username |-> u, socket |-> s]), ok |-> TRUE]

\* an unregister_client that deletes the entry and leaves its socket open
unregister_client_noclose(cl, so, u) ==
    [clients |-> Remove(cl, u), sockOpen |-> so]

\* unregister_client: closes the registered socket and deletes the entry
unregister_client(cl, so, u) ==
    IF u \notin Keys(cl)
    THEN [clients |-> cl, sockOpen |-> so]
    ELSE [clients |-> Remove(cl, u),
          sockOpen |-> [so EXCEPT ![cl[get_client(cl, u)].socket] = FALSE]]

RECURSIVE UnregisterAll(_, _, _)
UnregisterAll(cl, so, names) ==
    IF names = <<>> THEN [clients |-> cl, sockOpen |-> so]
    ELSE LET r == unregister_client(cl, so, Head(names))
         IN UnregisterAll(r.clients, r.sockOpen, Tail(names))

\* ---------------------------------------------------------------- sockets
\* socket.send raises on a socket the server has closed; on an open one it can
\* raise as well (the peer is gone, or the non-blocking send would block): bad
\* is the set of open sockets whose send raises in the handler segment at hand
SendOk(so, bad, s) == so[s] /\ s \notin bad

Sockets(cl) == {cl[i].socket : i \in 1..Len(cl)}

\* nothing written yet in this handler segment
Quiet == [c \in Conns |-> <<>>]

\* _send_response: socket.send inside a try/except that only logs
SendTo(sn, so, s, m) == IF so[s] THEN [sn EXCEPT ![s] = Append(@, m)] ELSE sn

\* a close that leaves the socket open
Close_leak(so, c) == so

\* client_socket.close() at the end of _cleanup
Close(so, c) == [so EXCEPT ![c] = FALSE]

CanStore == Len(messages) + Cardinality({d \in Conns : pc[d] = "msg_save"}) < MaxMsgs

\* the session layer before the first connection is served
InitSession ==
    /\ pc = [c \in Conns |-> "auth"]
    /\ username = [c \in Conns |-> None]
    /\ authenticated = [c \in Conns |-> FALSE]
    /\ request = [c \in Conns |-> NoRequest]
    /\ message = [c \in Conns |-> None]
    /\ clients = <<>>
    /\ sockOpen = [c \in Conns |-> TRUE]
    /\ response = [c \in Conns |-> NoResponse]
    /\ sent = Quiet
    /\ disconnected_clients = <<>>
    /\ messages = <<>>

InitPrivate ==
    /\ conversations = <<>>
    /\ private_messages = <<>>
    /\ private = [c \in Conns |-> NoPrivate]
    /\ call = NoCall
    /\ reply = NoReply

\* no receive loop under observation
InitFrame ==
    /\ stream = <<>>
    /\ wire = <<>>
    /\ buffer = <<>>
    /\ dispatched = <<>>
    /\ looping = FALSE

\* the accounts of the runs exist, nothing has been uploaded
InitStore ==
    /\ users = <<"alice", "bob", "carol">>
    /\ disk = <<>>
    /\ files = <<>>
    /\ upload = [c \in Conns |-> NoUpload]

\* no client under observation
InitClient ==
    /\ incoming = <<>>
    /\ inflight = <<>>
    /\ recv_buffer = <<>>
    /\ received = <<>>
    /\ pages = <<>>

Init == InitSession /\ InitPrivate /\ InitFrame /\ InitStore /\ InitClient

\* a segment of the session layer handles no MessageHandler request and
\* leaves the private tables and the observed receive loop alone
Elsewhere ==
    /\ call' = NoCall
    /\ reply' = NoReply
    /\ UNCHANGED <<conversations, private_messages, private, frameVars, storeVars, clientVars>>

\* --------------------------------------------------------- MessageManager
\* _save_system_message_to_db inserts a row with user_id None; the column is
\* declared nullable=False, the insert raises and the except clause logs it.
SaveSystemMessage(msgs, content) == msgs

\* _save_text_message_to_db
SaveTextMessage(msgs, u, content) ==
    Append(msgs, [message_id |-> Len(msgs) + 1, created_at |-> Len(msgs) + 1,
                  user |-> u, content_type |-> "text", content |-> content])

\* a fan-out that skips nobody
Excluded_nobody(e, ex) == FALSE

\* the test that skips the sender's own entry
Excluded(e, ex) == ex # NoConn /\ e.socket = ex

\* a loop that gives up at the first write that raises
RECURSIVE FanLoop_abort(_, _, _, _, _, _, _)
FanLoop_abort(todo, so, sn, failed, m, ex, bad) ==
    IF todo = <<>> THEN [sent |-> sn, failed |-> failed]
    ELSE LET e == Head(todo)
         IN IF ex # NoConn /\ e.socket = ex
            THEN FanLoop_abort(Tail(todo), so, sn, failed, m, ex, bad)
            ELSE IF SendOk(so, bad, e.socket)
            THEN FanLoop_abort(Tail(todo), so, [sn EXCEPT ![e.socket] = Append(@, m)],
                               failed, m, ex, bad)
            ELSE [sent |-> sn, failed |-> Append(failed, e.username)]

\* the loop of _broadcast_to_clients over clients.items(): the sockets written
\* to and the names whose write raised, in the order of the iteration
RECURSIVE FanLoop(_, _, _, _, _, _, _)
FanLoop(todo, so, sn, failed, m, ex, bad) ==
    IF todo = <<>> THEN [sent |-> sn, failed |-> failed]
    ELSE LET e == Head(todo)
         IN IF Excluded(e, ex)
            THEN FanLoop(Tail(todo), so, sn, failed, m, ex, bad)
            ELSE IF SendOk(so, bad, e.socket)
            THEN FanLoop(Tail(todo), so, [sn EXCEPT ![e.socket] = Append(@, m)],
                         failed, m, ex, bad)
            ELSE FanLoop(Tail(todo), so, sn, Append(failed, e.username), m, ex, bad)

\* _broadcast_to_clients: the loop, then unregister_client for every failed name
broadcast_to_clients(cl, so, sn, m, ex, bad) ==
    LET loop == FanLoop(cl, so, sn, <<>>, m, ex, bad)
        r == UnregisterAll(cl, so, loop.failed)
    IN [clients |-> r.clients, sockOpen |-> r.sockOpen, sent |-> loop.sent,
        failed |-> loop.failed]

\* send_user_list: the user list of the moment, to every client
send_user_list(cl, so, sn, bad) ==
    broadcast_to_clients(cl, so, sn, UserListEnvelope(get_all_usernames(cl)), NoConn, bad)

\* ----------------------------------------------------------- ClientHandler
\* a teardown that goes by the name the connection asked for
Cleanup_requested(c) ==
    IF is_client_connected(clients, request[c].username)
    THEN LET r == unregister_client(clients, sockOpen, request[c].username)
         IN /\ clients' = r.clients
            /\ sockOpen' = r.sockOpen
            /\ pc' = [pc EXCEPT ![c] = "left_save"]
    ELSE /\ clients' = clients
         /\ sockOpen' = Close(sockOpen, c)
         /\ pc' = [pc EXCEPT ![c] = "done"]

\* _cleanup, up to its first await (or to its end)
Cleanup(c) ==
    IF username[c] # None /\ is_client_connected(clients, username[c])
    THEN LET r == unregister_client(clients, sockOpen, username[c])
         IN /\ clients' = r.clients
            /\ sockOpen' = r.sockOpen
            /\ pc' = [pc EXCEPT ![c] = "left_save"]
    ELSE /\ clients' = clients
         /\ sockOpen' = Close(sockOpen, c)
         /\ pc' = [pc EXCEPT ![c] = "done"]

CanRead(c) == sockOpen[c]

\* str.strip, on the contents the model uses
Strip(m) == IF m = " " THEN "" ELSE m

\* _handle_authentication: the read returns nothing, or raises
AuthRecvClosed(c) ==
    /\ pc[c] = "auth"
    /\ Cleanup(c)
    /\ sent' = Quiet
    /\ disconnected_clients' = <<>>
    /\ UNCHANGED <<username, authenticated, request, message, response, messages>>
    /\ Elsewhere

\* _handle_authentication reads a login request; _handle_login awaits authenticate
AuthRecvLogin(c, u, ok) ==
    /\ pc[c] = "auth"
    /\ CanRead(c)
    /\ request' = [request EXCEPT ![c] = LoginRequest(u, ok)]
    /\ pc' = [pc EXCEPT ![c] = "authenticate"]
    /\ sent' = Quiet
    /\ disconnected_clients' = <<>>
    /\ UNCHANGED <<username, authenticated, message, response, clients, sockOpen, messages>>
    /\ Elsewhere

\* _handle_authentication reads a request that is neither login nor register
AuthRecvOther(c) ==
    /\ pc[c] = "auth"
    /\ CanRead(c)
    /\ request' = [request EXCEPT ![c] = OtherRequest]
    /\ response' = [response EXCEPT ![c] = ErrorResponse("unknown_request")]
    /\ sent' = SendTo(Quiet, sockOpen, c, response'[c])
    /\ disconnected_clients' = <<>>
    /\ Cleanup(c)
    /\ UNCHANGED <<username, authenticated, message, messages>>
    /\ Elsewhere

\* _handle_login after authenticate has returned, up to the await in
\* broadcast_system_message; a failed login runs on into _cleanup
AuthDone(c) ==
    /\ pc[c] = "authenticate"
    /\ LET u == request[c].username
           r == register_client(clients, u, c)
       IN IF request[c].ok
          THEN IF r.ok
               THEN /\ clients' = r.clients
                    /\ authenticated' = [authenticated EXCEPT ![c] = TRUE]
                    /\ username' = [username EXCEPT ![c] = u]
                    /\ response' = [response EXCEPT ![c] = LoginSuccess(u)]
                    /\ pc' = [pc EXCEPT ![c] = "join_save"]
                    /\ UNCHANGED sockOpen
               ELSE /\ response' = [response EXCEPT ![c] = LoginFailed("already_online")]
                    /\ Cleanup(c)
                    /\ UNCHANGED <<authenticated, username>>
          ELSE /\ response' = [response EXCEPT ![c] = LoginFailed("bad_credentials")]
               /\ Cleanup(c)
               /\ UNCHANGED <<authenticated, username>>
    /\ sent' = SendTo(Quiet, sockOpen, c, response'[c])
    /\ disconnected_clients' = <<>>
    /\ UNCHANGED <<request, message, messages>>
    /\ Elsewhere

\* _handle_login from the return of _save_system_message_to_db: the fan-out of
\* the joined message, send_user_list, and on into _handle_messages
JoinSaved(c, bad1, bad2) ==
    /\ pc[c] = "join_save"
    /\ bad1 \subseteq Sockets(clients)
    /\ LET b1 == broadcast_to_clients(clients, sockOpen, Quiet,
                                      SystemMessage(username[c], "joined"), NoConn, bad1)
       IN /\ bad2 \subseteq Sockets(b1.clients)
          /\ LET b2 == send_user_list(b1.clients, b1.sockOpen, b1.sent, bad2)
             IN /\ clients' = b2.clients
                /\ sockOpen' = b2.sockOpen
                /\ sent' = b2.sent
                /\ disconnected_clients' = b1.failed \o b2.failed
    /\ messages' = SaveSystemMessage(messages, username[c])
    /\ pc' = [pc EXCEPT ![c] = "recv"]
    /\ UNCHANGED <<username, authenticated, request, message, response>>
    /\ Elsewhere

\* _cleanup from the return of _save_system_message_to_db: the fan-out of the
\* left message, then the close of the handler's own socket
LeftSaved(c, bad) ==
    /\ pc[c] = "left_save"
    /\ bad \subseteq Sockets(clients)
    /\ LET b == broadcast_to_clients(clients, sockOpen, Quiet,
                                     SystemMessage(username[c], "left"), NoConn, bad)
       IN /\ clients' = b.clients
          /\ sockOpen' = Close(b.sockOpen, c)
          /\ sent' = b.sent
          /\ disconnected_clients' = b.failed
    /\ messages' = SaveSystemMessage(messages, username[c])
    /\ pc' = [pc EXCEPT ![c] = "done"]
    /\ UNCHANGED <<username, authenticated, request, message, response>>
    /\ Elsewhere

\* _handle_messages: the read returns nothing, or raises
RecvClosed(c) ==
    /\ pc[c] = "recv"
    /\ Cleanup(c)
    /\ sent' = Quiet
    /\ disconnected_clients' = <<>>
    /\ UNCHANGED <<username, authenticated, request, message, response, messages>>
    /\ Elsewhere

\* _handle_messages reads a text request; _process_message, up to the await
\* in broadcast_message
RecvText(c, content) ==
    /\ CanStore
    /\ pc[c] = "recv"
    /\ CanRead(c)
    /\ IF Strip(content) # ""
       THEN /\ message' = [message EXCEPT ![c] = content]
            /\ pc' = [pc EXCEPT ![c] = "msg_save"]
            /\ call' = NoCall
       ELSE /\ UNCHANGED <<message, pc>>
            /\ call' = Call(c, "_process_message", "text", None, content)
    /\ reply' = NoReply
    /\ sent' = Quiet
    /\ disconnected_clients' = <<>>
    /\ UNCHANGED <<username, authenticated, request, response, clients, sockOpen, messages>>
    /\ UNCHANGED <<conversations, private_messages, private, frameVars, storeVars, clientVars>>

\* broadcast_message from the return of _save_text_message_to_db
TextSaved(c, bad) ==
    /\ pc[c] = "msg_save"
    /\ bad \subseteq Sockets(clients) \ {c}
    /\ LET b == broadcast_to_clients(clients, sockOpen, Quiet,
                                     TextMessage(username[c], message[c]), c, bad)
       IN /\ clients' = b.clients
          /\ sockOpen' = b.sockOpen
          /\ sent' = b.sent
          /\ disconnected_clients' = b.failed
    /\ messages' = SaveTextMessage(messages, username[c], message[c])
    /\ pc' = [pc EXCEPT ![c] = "recv"]
    /\ message' = [message EXCEPT ![c] = None]
    /\ UNCHANGED <<username, authenticated, request, response>>
    /\ Elsewhere

\* broadcast_message when _save_text_message_to_db caught an exception of the
\* session or of the insert: the exception is logged and the fan-out goes on
TextSaveFailed(c, bad) ==
    /\ pc[c] = "msg_save"
    /\ bad \subseteq Sockets(clients) \ {c}
    /\ LET b == broadcast_to_clients(clients, sockOpen, Quiet,
                                     TextMessage(username[c], message[c]), c, bad)
       IN /\ clients' = b.clients
          /\ sockOpen' = b.sockOpen
          /\ sent' = b.sent
          /\ disconnected_clients' = b.failed
    /\ pc' = [pc EXCEPT ![c] = "recv"]
    /\ message' = [message EXCEPT ![c] = None]
    /\ UNCHANGED <<username, authenticated, request, response, messages>>
    /\ Elsewhere

\* _handle_messages reads a logout request
RecvLogout(c) ==
    /\ pc[c] = "recv"
    /\ CanRead(c)
    /\ Cleanup(c)
    /\ sent' = Quiet
    /\ disconnected_clients' = <<>>
    /\ UNCHANGED <<username, authenticated, request, message, response, messages>>
    /\ Elsewhere

\* the names a connection may ask for: every run is, up to a renaming of the
\* users, one in which connection 1 asks for alice and connection 2 for alice or bob
LoginNames(c) == IF c = 1 THEN {"alice"} ELSE IF c = 2 THEN {"alice", "bob"} ELSE Users

Next ==
    \/ \E c \in Conns : AuthRecvClosed(c)
    \/ \E c \in Conns : \E u \in LoginNames(c), ok \in BOOLEAN : AuthRecvLogin(c, u, ok)
    \/ \E c \in Conns : AuthRecvOther(c)
    \/ \E c \in Conns : AuthDone(c)
    \/ \E c \in Conns : \E bad1, bad2 \in SUBSET Conns : JoinSaved(c, bad1, bad2)
    \/ \E c \in Conns : \E bad \in SUBSET Conns : LeftSaved(c, bad)
    \/ \E c \in Conns : RecvClosed(c)
    \/ \E c \in Conns, m \in Contents : RecvText(c, m)
    \/ \E c \in Conns : \E bad \in SUBSET Conns : TextSaved(c, bad)
    \/ \E c \in Conns : RecvLogout(c)

Spec == Init /\ [][Next]_vars

\* ------------------------------------------------------------ the sessions
\* the handler of c has the answer of authenticate in hand
Answering(c) == pc[c] = "authenticate"

\* the step in which the handler of c answers its login request
Answers(c) == Answering(c) /\ pc'[c] # "authenticate"

\* the registry entry of a name, or of nobody
EntryOf(cl, u) == {cl[i] : i \in {j \in 1..Len(cl) : cl[j].username = u}}

\* C1: the registry never holds two sessions for one name, and a login with
\* the right password for a name that has a session is answered login_failed
\* and leaves that session's entry, and its socket, as they were
C1_SingleSession ==
    /\ [](\A i, j \in 1..Len(clients) :
            clients[i].username = clients[j].username => i = j)
    /\ [][\A c \in Conns :
            (Answers(c) /\ request[c].ok
                /\ is_client_connected(clients, request[c].username))
            => /\ sent'[c] = <<LoginFailed("already_online")>>
               /\ ~authenticated'[c]
               /\ clients' = clients
               /\ \A d \in Conns \ {c} : sockOpen'[d] = sockOpen[d]]_vars

\* a second login for alice was answered while her first session was registered
C1_Witness ==
    \E c, d \in Conns :
        /\ c # d
        /\ response[d] = LoginFailed("already_online")
        /\ request[d] = LoginRequest("alice", TRUE)
        /\ sent[d] = <<response[d]>>
        /\ EntryOf(clients, "alice") = {[username |-> "alice", socket |-> c]}
        /\ sockOpen[c]

\* ---------------------------------------------------------- the login race
\* the handlers of the login race: every peer stays connected, every write
\* goes through, nobody logs out
NextRace ==
    \/ \E c \in Conns : \E u \in LoginNames(c), ok \in BOOLEAN : AuthRecvLogin(c, u, ok)
    \/ \E c \in Conns : AuthDone(c)
    \/ \E c \in Conns : JoinSaved(c, {}, {})

SpecRace == Init /\ [][NextRace]_vars

Answered(c) == response[c] # NoResponse

\* the connections that asked for u with the right password and have an answer
Contenders(u) == {c \in Conns : request[c] = LoginRequest(u, TRUE) /\ Answered(c)}

\* C2: of the connections that log in as one user with the right password,
\* in whatever order their handlers run, exactly one is answered
\* login_success and every other one login_failed, "already online"
C2_LoginRace ==
    \A u \in Users :
        Contenders(u) # {} =>
            \E c \in Contenders(u) :
                /\ response[c] = LoginSuccess(u)
                /\ \A d \in Contenders(u) \ {c} :
                       response[d] = LoginFailed("already_online")

\* two logins for alice have been answered, the second while the handler of
\* the first was still inside _handle_login
C2_Witness ==
    \E c, d \in Contenders("alice") :
        /\ c # d
        /\ pc[c] = "join_save"
        /\ response[d] = LoginFailed("already_online")

\* C3: the step that rejects a login for a name that is online also tears the
\* rejected connection down: the handler ends without a 'left' broadcast,
\* only its own socket is closed and written to, and the registry, with the
\* first session's entry, is left as it was
C3_RejectedTeardown ==
    [][\A c \in Conns :
         (Answers(c) /\ response'[c] = LoginFailed("already_online"))
         => /\ pc'[c] = "done"
            /\ ~sockOpen'[c]
            /\ clients' = clients
            /\ \A d \in Sockets(clients) : sockOpen'[d]
            /\ \A d \in Conns \ {c} : sent'[d] = <<>>
            /\ EntryOf(clients', request[c].username) # {}]_vars

\* a rejected connection is closed and done with, bob's session is untouched
C3_Witness ==
    \E c, d \in Conns :
        /\ response[d] = LoginFailed("already_online")
        /\ request[d] = LoginRequest("bob", TRUE)
        /\ pc[d] = "done" /\ ~sockOpen[d]
        /\ sent[d] = <<response[d]>>
        /\ EntryOf(clients, "bob") = {[username |-> "bob", socket |-> c]}
        /\ sockOpen[c] /\ pc[c] = "recv"

\* ------------------------------------------------------------- the fan-out
\* the step in which broadcast_message fans the message of c out
FansText(c) == pc[c] = "msg_save" /\ pc'[c] = "recv"

\* C4: when the text message of A is fanned out, A's socket gets no copy,
\* no socket gets more than the one envelope, and if no write raises every
\* other session registered at that moment gets it
C4_BroadcastExclusion ==
    [][\A c \in Conns :
         FansText(c)
         => LET m == TextMessage(username[c], message[c])
            IN /\ sent'[c] = <<>>
               /\ \A d \in Conns \ {c} : sent'[d] \in {<<>>, <<m>>}
               /\ \A d \in Conns \ Sockets(clients) : sent'[d] = <<>>
               /\ disconnected_clients' = <<>>
                    => \A d \in Sockets(clients) \ {c} : sent'[d] = <<m>>]_vars

\* two other sessions have just been written a message, its sender has not
C4_Witness ==
    \E c, d, e \in Sockets(clients) :
        /\ c # d /\ d # e /\ c # e
        /\ sent[c] = <<>>
        /\ sent[d] = <<TextMessage(username[c], "hi")>>
        /\ sent[e] = sent[d]
        /\ Len(messages) > 0

\* the registry without the entries of the names in failed
Survivors(cl, failed) ==
    SelectSeq(cl, LAMBDA e : \A i \in 1..Len(failed) : failed[i] # e.username)

\* C5: in a fan-out of a text or a 'left' message, the names whose write
\* raised are exactly the ones taken out of the registry, and every other
\* registered session but the sender is written the envelope
C5_FanOutSurvivesFailure ==
    [][\A c \in Conns :
         (pc[c] \in {"msg_save", "left_save"} /\ pc'[c] # pc[c])
         => LET m == IF pc[c] = "msg_save"
                     THEN TextMessage(username[c], message[c])
                     ELSE SystemMessage(username[c], "left")
            IN /\ clients' = Survivors(clients, disconnected_clients')
               /\ \A i \in 1..Len(clients) :
                    LET e == clients[i]
                    IN e.socket # c =>
                         IF \E j \in 1..Len(disconnected_clients') :
                                disconnected_clients'[j] = e.username
                         THEN sent'[e.socket] = <<>> /\ ~sockOpen'[e.socket]
                         ELSE sent'[e.socket] = <<m>>]_vars

\* a write raised in a fan-out that still reached another session
C5_Witness ==
    /\ Len(disconnected_clients) = 1
    /\ \E d \in Sockets(clients) :
         /\ Len(sent[d]) = 1
         /\ sent[d][1].type \in {"text", "system"}
         /\ sent[d][1].content # "joined"

\* --------------------------------------------------------- the receive loop
\* the request objects of the framing runs: two ASCII ones and one whose
\* text holds a character of two bytes
Objects == {"a", "b", "e'"}

\* what a peer can send in place of a request object: a text that is no
\* JSON, and a byte that is no UTF-8
Garbage == {"}", "xff"}

\* the bytes of a request object, or of garbage, on the wire
Encode(o) ==
    CASE o = "e'" -> <<"{", "M1", "M2", "}">>
      [] o = "}" -> <<"}">>
      [] o = "xff" -> <<"XX">>
      [] OTHER -> <<"{", o, "}">>

RECURSIVE Flatten(_)
Flatten(objs) == IF objs = <<>> THEN <<>> ELSE Encode(Head(objs)) \o Flatten(Tail(objs))

\* buffer.decode('utf-8') raises when the buffer ends inside a character or
\* holds a byte that is part of none
Decodes(buf) ==
    /\ buf = <<>> \/ buf[Len(buf)] # "M1"
    /\ \A i \in 1..Len(buf) : buf[i] # "XX"

\* json.loads parses a text that is one object and nothing else
Parses(buf) == \E o \in Objects : Encode(o) = buf
Loads(buf) == CHOOSE o \in Objects : Encode(o) = buf

\* one authenticated session, about to enter _handle_messages
InitReceiving ==
    /\ pc = [c \in Conns |-> IF c = 1 THEN "recv" ELSE "auth"]
    /\ username = [c \in Conns |-> IF c = 1 THEN "alice" ELSE None]
    /\ authenticated = [c \in Conns |-> c = 1]
    /\ request = [c \in Conns |-> IF c = 1 THEN LoginRequest("alice", TRUE) ELSE NoRequest]
    /\ message = [c \in Conns |-> None]
    /\ response = [c \in Conns |-> IF c = 1 THEN LoginSuccess("alice") ELSE NoResponse]
    /\ clients = <<[username |-> "alice", socket |-> 1]>>
    /\ sockOpen = [c \in Conns |-> TRUE]
    /\ sent = Quiet
    /\ disconnected_clients = <<>>

\* the peer sends up to MaxObjs request objects back to back
InitStream ==
    /\ stream \in UNION {[1..n -> Objects] : n \in 1..MaxObjs}
    /\ wire = Flatten(stream)
    /\ buffer = <<>>
    /\ dispatched = <<>>
    /\ looping = TRUE

\* sock_recv returns the next n bytes; the loop appends them to the buffer and
\* tries to parse the whole buffer as one request
FrameRecv(n) ==
    /\ looping
    /\ n \in 1..Len(wire)
    /\ LET data == SubSeq(wire, 1, n)
           buf == buffer \o data
       IN /\ wire' = SubSeq(wire, n + 1, Len(wire))
          /\ IF ~Decodes(buf)
             THEN \* UnicodeDecodeError: the outer except leaves the loop
                  /\ looping' = FALSE
                  /\ buffer' = buf
                  /\ UNCHANGED dispatched
             ELSE IF Parses(buf)
             THEN /\ dispatched' = Append(dispatched, Loads(buf))
                  /\ buffer' = <<>>
                  /\ UNCHANGED looping
             ELSE \* JSONDecodeError: wait for more bytes
                  /\ buffer' = buf
                  /\ UNCHANGED <<dispatched, looping>>
    /\ UNCHANGED <<stream, sessionVars, privateVars, storeVars, clientVars>>

\* sock_recv returns b"": the peer has closed after its last byte
FrameEof ==
    /\ looping
    /\ wire = <<>>
    /\ looping' = FALSE
    /\ UNCHANGED <<stream, wire, buffer, dispatched, sessionVars, privateVars, storeVars, clientVars>>

NextFrame ==
    \/ \E n \in 1..Len(wire) : FrameRecv(n)
    \/ FrameEof

InitFraming == InitReceiving /\ messages = <<>> /\ InitPrivate /\ InitStore /\ InitClient /\ InitStream

SpecFrame == InitFraming /\ [][NextFrame]_vars

\* C6: once the loop has read every byte of the stream, it has dispatched
\* the objects of the stream, each once and in order, however the bytes
\* were cut into reads
C6_Framing == wire = <<>> => dispatched = stream

\* ------------------------------------------------------- private messages
\* str.strip of the content is empty
Blank(content) == Strip(content) = ""

\* the order of the user ids: users are numbered by name
Lower(a, b) == IF a < b THEN a ELSE b
Higher(a, b) == IF a < b THEN b ELSE a
UserId(u) == IF u = "alice" THEN 1 ELSE IF u = "bob" THEN 2 ELSE 3

\* get_by_users without the swap: the rows of the pair in the order given
get_by_users_asgiven(convs, a, b) ==
    SelectSeq(convs, LAMBDA r : r.user1_id = UserId(a) /\ r.user2_id = UserId(b))

\* PrivateConversationCRUD.get_by_users: the rows of the pair, either order
get_by_users(convs, a, b) ==
    SelectSeq(convs, LAMBDA r : /\ r.user1_id = Lower(UserId(a), UserId(b))
                                /\ r.user2_id = Higher(UserId(a), UserId(b)))

\* PrivateConversationCRUD.create, as send_private_message calls it
create_conversation(convs, a, b) ==
    Append(convs, [conversation_id |-> Len(convs) + 1,
                   user1_id |-> Lower(UserId(a), UserId(b)),
                   user2_id |-> Higher(UserId(a), UserId(b)),
                   last_message_id |-> 0])

\* the table's only constraint, CHECK user1_id < user2_id, on its newest row
unique_user_pair(convs) == convs[Len(convs)].user1_id < convs[Len(convs)].user2_id

\* PrivateMessageCRUD.get_by_conversation: the newest limit rows, oldest first
RECURSIVE LastRows(_, _)
LastRows(rows, limit) ==
    IF Len(rows) <= limit THEN rows ELSE LastRows(Tail(rows), limit)

get_by_conversation(msgs, id, limit) ==
    LastRows(SelectSeq(msgs, LAMBDA r : r.conversation_id = id), limit)

\* get_private_history_messages: the rows as the client is sent them
get_private_history_messages(msgs, id, limit) ==
    LET rows == get_by_conversation(msgs, id, limit)
    IN [i \in 1..Len(rows) |->
           [username |-> rows[i].sender, receiver |-> rows[i].receiver,
            content |-> rows[i].content, conversation_id |-> rows[i].conversation_id]]

PrivateEnvelope(from, content) == Envelope("private", from, content)

\* the routes of RequestDispatcher
Routes(type) ==
    CASE type \in {"text", "image", "video", "file", "audio", "private"} -> "handle_message"
      [] type = "get_private_history" -> "handle_get_private_history"
      [] type = "get_history" -> "handle_get_history"
      [] type = "login" -> "handle_login"
      [] OTHER -> None

\* the session of an authenticated user is waiting for a request
Serving(c) == pc[c] = "recv" /\ CanRead(c)

\* the handling of a request returns rep to the session c
Returns(c, rq, rep) ==
    /\ call' = rq
    /\ reply' = rep
    /\ sent' = Quiet
    /\ disconnected_clients' = <<>>

CanStorePrivate ==
    Len(private_messages) + Cardinality({d \in Conns : private[d] # NoPrivate}) < MaxPrivate

\* what a handler that returns at once leaves alone
OnlyReturns ==
    UNCHANGED <<pc, username, authenticated, request, message, response, clients,
                sockOpen, messages, conversations, private_messages, private, frameVars, storeVars, clientVars>>

\* RequestDispatcher.dispatch of a request whose type has no route
DispatchUnknown(c) ==
    /\ Serving(c)
    /\ Routes("unknown") = None
    /\ Returns(c, Call(c, "dispatch", "unknown", None, None),
               Reply("error", "unknown_type", <<>>))
    /\ OnlyReturns

\* RequestDispatcher.dispatch of a private request: the route of 'private' is
\* handle_message, which turns down every request that names a receiver
DispatchPrivate(c, r, content) ==
    /\ Serving(c)
    /\ Routes("private") = "handle_message"
    /\ r # None
    /\ Returns(c, Call(c, "dispatch", "private", r, content),
               Reply("error", "use_private_type", <<>>))
    /\ OnlyReturns

\* RequestDispatcher.dispatch of get_private_history: handle_get_private_history
DispatchGetPrivateHistory(c, id) ==
    /\ Serving(c)
    /\ Routes("get_private_history") = "handle_get_private_history"
    /\ Returns(c, [Call(c, "dispatch", "get_private_history", None, None)
                      EXCEPT !.conversation_id = id, !.limit = DefaultLimit],
               IF id = 0
               THEN Reply("error", "no_conversation_id", <<>>)
               ELSE Reply("private_history", None,
                          get_private_history_messages(private_messages, id, DefaultLimit)))
    /\ OnlyReturns

\* handle_get_conversation: MessageManager has no get_or_create_conversation,
\* the call raises AttributeError and the except clause answers with an error
HandleGetConversation(c, a, b) ==
    /\ Serving(c)
    /\ Returns(c, Call(c, "handle_get_conversation", "get_conversation", b, a),
               Reply("error", "get_conversation_failed", <<>>))
    /\ OnlyReturns

\* handle_private_message, up to the first await of send_private_message
HandlePrivateMessage(c, r, content) ==
    /\ Serving(c)
    /\ CanStorePrivate
    /\ LET rq == Call(c, "handle_private_message", "private", r, content)
       IN IF Blank(content)
          THEN Returns(c, rq, Reply("error", "empty_content", <<>>)) /\ UNCHANGED <<pc, private>>
          ELSE IF ~is_client_connected(clients, username[c])
          THEN Returns(c, rq, Reply("error", "sender_offline", <<>>)) /\ UNCHANGED <<pc, private>>
          ELSE IF ~is_client_connected(clients, r)
          THEN Returns(c, rq, Reply("error", "receiver_offline", <<>>)) /\ UNCHANGED <<pc, private>>
          ELSE /\ Returns(c, NoCall, NoReply)
               /\ private' = [private EXCEPT ![c] =
                                [receiver |-> r, content |-> content, conversation_id |-> 0]]
               /\ pc' = [pc EXCEPT ![c] = "priv_lookup"]
    /\ UNCHANGED <<username, authenticated, request, message, response, clients,
                   sockOpen, messages, conversations, private_messages, frameVars, storeVars, clientVars>>

\* the request send_private_message of session c is working on
PrivateCall(c) ==
    Call(c, "handle_private_message", "private", private[c].receiver, private[c].content)

\* send_private_message raises or returns False: handle_private_message
\* answers with an error
PrivateFails(c) ==
    /\ Returns(c, PrivateCall(c), Reply("error", "send_failed", <<>>))
    /\ private' = [private EXCEPT ![c] = NoPrivate]
    /\ pc' = [pc EXCEPT ![c] = "recv"]

\* send_private_message from the return of get_by_users
PrivLookup(c) ==
    /\ pc[c] = "priv_lookup"
    /\ LET rows == get_by_users(conversations, username[c], private[c].receiver)
       IN IF Len(rows) > 1
          THEN PrivateFails(c)   \* scalar_one_or_none raises MultipleResultsFound
          ELSE /\ Returns(c, NoCall, NoReply)
               /\ IF rows = <<>>
                  THEN /\ pc' = [pc EXCEPT ![c] = "priv_create"]
                       /\ UNCHANGED private
                  ELSE /\ pc' = [pc EXCEPT ![c] = "priv_save"]
                       /\ private' = [private EXCEPT
                                        ![c].conversation_id = rows[1].conversation_id]
    /\ UNCHANGED <<username, authenticated, request, message, response, clients,
                   sockOpen, messages, conversations, private_messages, frameVars, storeVars, clientVars>>

\* send_private_message from the return of PrivateConversationCRUD.create
PrivCreate(c) ==
    /\ pc[c] = "priv_create"
    /\ IF ~unique_user_pair(create_conversation(conversations, username[c],
                                                 private[c].receiver))
       THEN \* the check turns the row down, commit raises
            PrivateFails(c) /\ UNCHANGED conversations
       ELSE /\ Returns(c, NoCall, NoReply)
            /\ conversations' =
                   create_conversation(conversations, username[c], private[c].receiver)
            /\ private' = [private EXCEPT ![c].conversation_id = Len(conversations')]
            /\ pc' = [pc EXCEPT ![c] = "priv_save"]
    /\ UNCHANGED <<username, authenticated, request, message, response, clients,
                   sockOpen, messages, private_messages, frameVars, storeVars, clientVars>>

\* send_private_message from the return of PrivateMessageCRUD.create and of
\* update_last_message
PrivSave(c) ==
    /\ pc[c] = "priv_save"
    /\ private_messages' =
           Append(private_messages,
                  [message_id |-> Len(private_messages) + 1,
                   conversation_id |-> private[c].conversation_id,
                   sender |-> username[c], receiver |-> private[c].receiver,
                   content |-> private[c].content])
    /\ conversations' =
           [i \in 1..Len(conversations) |->
               IF conversations[i].conversation_id = private[c].conversation_id
               THEN [conversations[i] EXCEPT !.last_message_id = Len(private_messages')]
               ELSE conversations[i]]
    /\ pc' = [pc EXCEPT ![c] = "priv_push"]
    /\ Returns(c, NoCall, NoReply)
    /\ UNCHANGED <<username, authenticated, request, message, response, clients,
                   sockOpen, messages, private, frameVars, storeVars, clientVars>>

\* the push with a copy for the sender
PushPrivate_echo(c, s) ==
    [Quiet EXCEPT ![s] = <<PrivateEnvelope(username[c], private[c].content)>>,
                  ![c] = <<PrivateEnvelope(username[c], private[c].content)>>]

\* receiver_client.socket.send of the private envelope: the one write of the push
PushPrivate(c, s) ==
    [Quiet EXCEPT ![s] = <<PrivateEnvelope(username[c], private[c].content)>>]

\* send_private_message after the session block: the push to the receiver,
\* if online, and the answer of handle_private_message
PrivPush(c, bad) ==
    /\ pc[c] = "priv_push"
    /\ LET r == private[c].receiver
       IN IF is_client_connected(clients, r)
          THEN LET s == clients[get_client(clients, r)].socket
               IN /\ bad \subseteq {s}
                  /\ IF SendOk(sockOpen, bad, s)
                     THEN /\ call' = PrivateCall(c)
                          /\ reply' = Reply("private_message_sent", None, <<>>)
                          /\ sent' = PushPrivate(c, s)
                     ELSE /\ call' = PrivateCall(c)
                          /\ reply' = Reply("error", "send_failed", <<>>)
                          /\ sent' = Quiet
          ELSE /\ bad = {}
               /\ call' = PrivateCall(c)
               /\ reply' = Reply("private_message_sent", None, <<>>)
               /\ sent' = Quiet
    /\ disconnected_clients' = <<>>
    /\ private' = [private EXCEPT ![c] = NoPrivate]
    /\ pc' = [pc EXCEPT ![c] = "recv"]
    /\ UNCHANGED <<username, authenticated, request, message, response, clients,
                   sockOpen, messages, conversations, private_messages, frameVars, storeVars, clientVars>>

\* the user behind each connection of the private message runs
UserOf(c) == IF c = 1 THEN "alice" ELSE IF c = 2 THEN "bob" ELSE "carol"

\* the connections that send requests in the private message runs; the third
\* one only listens
Senders == {1, 2}

\* the sessions of the private message runs log in, each under its own name,
\* and out; their writes succeed
NextPrivate ==
    \/ \E c \in Conns : AuthRecvLogin(c, UserOf(c), TRUE)
    \/ \E c \in Conns : AuthDone(c)
    \/ \E c \in Conns : JoinSaved(c, {}, {})
    \/ \E c \in Conns : RecvLogout(c)
    \/ \E c \in Conns : LeftSaved(c, {})
    \/ \E c \in Senders, r \in Users, m \in Contents : DispatchPrivate(c, r, m)
    \/ \E c \in Senders, id \in 0..MaxPrivate : DispatchGetPrivateHistory(c, id)
    \/ \E c \in Senders, b \in Users : HandleGetConversation(c, username[c], b)
    \/ \E c \in Senders, r \in Users, m \in Contents : HandlePrivateMessage(c, r, m)
    \/ \E c \in Conns : PrivLookup(c)
    \/ \E c \in Conns : PrivCreate(c)
    \/ \E c \in Conns : PrivSave(c)
    \/ \E c \in Conns : \E bad \in SUBSET Conns : PrivPush(c, bad)

SpecPrivate == Init /\ [][NextPrivate]_vars

\* the last segment answered a request of an online user that names another user
Handled(route, type) ==
    /\ call.route = route
    /\ call.type = type
    /\ is_client_connected(clients, username[call.conn])
    /\ call.receiver # username[call.conn]

\* the rows of the private_messages table that record the request call
Persisted(rq) ==
    {i \in 1..Len(private_messages) :
        /\ private_messages[i].sender = username[rq.conn]
        /\ private_messages[i].receiver = rq.receiver
        /\ private_messages[i].content = rq.content}

\* the pair of users of a conversation row, or of a message row
PairOf(a, b) == {a, b}

\* C7: a pair of users has one conversation row whichever of the two comes
\* first; the messages between two users, in either direction, carry one
\* conversation_id; and a request to resolve a pair's conversation is
\* answered with the conversation
C7_Canonicalization ==
    /\ \A i, j \in 1..Len(conversations) :
          PairOf(conversations[i].user1_id, conversations[i].user2_id)
            = PairOf(conversations[j].user1_id, conversations[j].user2_id) => i = j
    /\ \A i, j \in 1..Len(private_messages) :
          PairOf(private_messages[i].sender, private_messages[i].receiver)
            = PairOf(private_messages[j].sender, private_messages[j].receiver)
          => private_messages[i].conversation_id = private_messages[j].conversation_id
    /\ Handled("handle_get_conversation", "get_conversation")
          => reply.type = "conversation_info"

\* C8: a private request with text, routed by the dispatcher for an online
\* sender to an online receiver, is answered private_message_sent, reaches
\* the receiver's socket as a private envelope with the sender's name and is
\* in the table; a routed request for a conversation's history is answered
\* with every message of that conversation
C8_PrivateRoundTrip ==
    /\ (/\ Handled("dispatch", "private")
        /\ is_client_connected(clients, call.receiver)
        /\ ~Blank(call.content))
       => /\ reply.type = "private_message_sent"
          /\ sent[clients[get_client(clients, call.receiver)].socket]
               = <<PrivateEnvelope(username[call.conn], call.content)>>
          /\ Persisted(call) # {}
    /\ Handled("dispatch", "get_private_history")
       => \A i \in 1..Len(private_messages) :
             private_messages[i].conversation_id = call.conversation_id
             => \E k \in 1..Len(reply.messages) :
                   reply.messages[k].content = private_messages[i].content

\* C9: a private message with text from an online sender to a user who is
\* not online is accepted and stored and pushed to no socket; the receiver,
\* once online, is sent it in the history of the conversation
C9_OfflineDelivery ==
    /\ (/\ Handled("handle_private_message", "private")
        /\ ~is_client_connected(clients, call.receiver)
        /\ ~Blank(call.content))
       => /\ reply.type = "private_message_sent"
          /\ sent = Quiet
          /\ Persisted(call) # {}
    /\ Handled("dispatch", "get_private_history")
       => \A i \in 1..Len(private_messages) :
             (/\ private_messages[i].conversation_id = call.conversation_id
              /\ private_messages[i].receiver = username[call.conn])
             => \E k \in 1..Len(reply.messages) :
                   /\ reply.messages[k].content = private_messages[i].content
                   /\ reply.messages[k].receiver = username[call.conn]

\* ------------------------------------------------------------ room history
Min(a, b) == IF a < b THEN a ELSE b

Reverse(seq) == [i \in 1..Len(seq) |-> seq[Len(seq) + 1 - i]]

\* the orders in which ORDER BY created_at DESC may return the rows rs: rows
\* of one timestamp come in whatever order the database finds them
DescOrders(msgs, rs) ==
    {p \in [1..Cardinality(rs) -> rs] :
        /\ \A i, j \in 1..Cardinality(rs) : p[i] = p[j] => i = j
        /\ \A i, j \in 1..Cardinality(rs) :
              i < j => msgs[p[i]].created_at >= msgs[p[j]].created_at}

\* get_before_message, with a known message_id, selects with the condition
\* that takes the cursor's own timestamp too
Selected_inclusive(msgs, message_id) ==
    IF message_id \in 1..Len(msgs)
    THEN {i \in 1..Len(msgs) : msgs[i].created_at <= msgs[message_id].created_at}
    ELSE 1..Len(msgs)

\* get_before_message that selects nothing for a message_id not in the table
get_before_message_strict(msgs, message_id) ==
    IF message_id \in 1..Len(msgs)
    THEN {i \in 1..Len(msgs) : msgs[i].created_at < msgs[message_id].created_at}
    ELSE {}

\* the rows get_before_message selects: created_at < the cursor row's
\* created_at, and for a message_id that is not in the table the rows
\* get_lasted_message selects
get_before_message(msgs, message_id) ==
    IF message_id \in 1..Len(msgs)
    THEN {i \in 1..Len(msgs) : msgs[i].created_at < msgs[message_id].created_at}
    ELSE 1..Len(msgs)

\* the rows the query of get_history_messages selects: get_lasted_message
\* selects all, get_before_message is called when message_id is not None
Selected(msgs, message_id) ==
    IF message_id = 0 THEN 1..Len(msgs) ELSE get_before_message(msgs, message_id)

\* the entry get_history_messages makes of a row: of a file row it keeps the
\* file name and leaves file_url and the file_id of the metadata out
history_message(row) ==
    IF "file_name" \in DOMAIN row
    THEN [message_id |-> row.message_id, created_at |-> row.created_at, user |-> row.user,
          content_type |-> row.content_type, file_name |-> row.file_name]
    ELSE row

\* LIMIT num on the rows in the order p, then messages.reverse()
Latest(msgs, p, num) ==
    Reverse([i \in 1..Min(num, Len(p)) |-> history_message(msgs[p[i]])])

\* a global_messages table of up to MaxRows rows with timestamps up to MaxTime
Tables ==
    UNION {[1..n -> 1..MaxTime] : n \in 0..MaxRows}

InitHistory ==
    /\ InitReceiving
    /\ InitPrivate
    /\ InitFrame
    /\ InitStore
    /\ InitClient
    /\ \E t \in Tables :
          messages = [i \in 1..Len(t) |->
                        [message_id |-> i, created_at |-> t[i], user |-> "alice",
                         content_type |-> "text", content |-> "hi"]]

\* get_history_messages(message_id, limit); message_id 0 stands for None,
\* Len(messages) + 1 for an id that is not in the table. A query changes no
\* table: a run makes one
GetHistory(c, message_id, limit) ==
    /\ Serving(c)
    /\ call = NoCall
    /\ call' = [Call(c, "get_history_messages", "get_history", None, None)
                   EXCEPT !.message_id = message_id, !.limit = limit]
    /\ \E p \in DescOrders(messages, Selected(messages, message_id)) :
          reply' = Reply("get_history", None, Latest(messages, p, limit))
    /\ sent' = [Quiet EXCEPT ![c] = <<Envelope("get_history", None, None)>>]
    /\ disconnected_clients' = <<>>
    /\ UNCHANGED <<pc, username, authenticated, request, message, response, clients,
                   sockOpen, messages, conversations, private_messages, private,
                   frameVars, storeVars, clientVars>>

NextHistory ==
    \E c \in Conns, message_id \in 0..(MaxRows + 1), limit \in 0..(MaxRows + 1) :
        GetHistory(c, message_id, limit)

SpecHistory == InitHistory /\ [][NextHistory]_vars

\* paging back through the room history: the first request has no cursor,
\* each later one has the message_id of the oldest row of the page before,
\* and the run ends with the first empty page
PageBack(c, limit) ==
    /\ Serving(c)
    /\ pages # <<>> => pages[Len(pages)] # <<>>
    /\ LET message_id == IF pages = <<>> THEN 0 ELSE pages[Len(pages)][1].message_id
       IN /\ call' = [Call(c, "get_history_messages", "get_history", None, None)
                         EXCEPT !.message_id = message_id, !.limit = limit]
          /\ \E p \in DescOrders(messages, Selected(messages, message_id)) :
                /\ reply' = Reply("get_history", None, Latest(messages, p, limit))
                /\ pages' = Append(pages, Latest(messages, p, limit))
    /\ sent' = [Quiet EXCEPT ![c] = <<Envelope("get_history", None, None)>>]
    /\ disconnected_clients' = <<>>
    /\ UNCHANGED <<pc, username, authenticated, request, message, response, clients,
                   sockOpen, messages, conversations, private_messages, private,
                   frameVars, storeVars, incoming, inflight, recv_buffer, received>>

NextPaging ==
    \E c \in Conns, limit \in 1..MaxRows : PageBack(c, limit)

SpecPaging == InitHistory /\ [][NextPaging]_vars

Ascending(rows) ==
    \A i, j \in 1..Len(rows) : i < j => rows[i].created_at <= rows[j].created_at

Ids(rows) == {rows[i].message_id : i \in 1..Len(rows)}

\* C10: without a cursor the history is min(limit, total) different rows of
\* the table, oldest first, and no row left out is newer than a row
\* returned; with the id of a row as cursor it is at most limit rows, each
\* strictly older than that row, oldest first
C10_HistoryOrdering ==
    call.route = "get_history_messages" =>
        LET rows == reply.messages
        IN /\ Ascending(rows)
           /\ \A i \in 1..Len(rows) : messages[rows[i].message_id] = rows[i]
           /\ Cardinality(Ids(rows)) = Len(rows)
           /\ call.message_id = 0 =>
                /\ Len(rows) = Min(call.limit, Len(messages))
                /\ \A m \in 1..Len(messages) : \A i \in 1..Len(rows) :
                      m \notin Ids(rows) => messages[m].created_at <= rows[i].created_at
           /\ call.message_id \in 1..Len(messages) =>
                /\ Len(rows) <= call.limit
                /\ \A i \in 1..Len(rows) :
                      rows[i].created_at < messages[call.message_id].created_at

\* two of three rows of one timestamp were returned without a cursor, and
\* the limit cut the third off
C10_Witness ==
    /\ call.route = "get_history_messages"
    /\ call.message_id = 0
    /\ call.limit = 2
    /\ Len(messages) = 3
    /\ Len(reply.messages) = 2
    /\ \A i \in 1..3 : messages[i].created_at = messages[1].created_at

\* ------------------------------------------------- the dispatcher's login
\* RequestDispatcher.dispatch of a login request read from the socket of c:
\* AuthHandler.handle_login, up to the await of authenticate
DispatchLogin(c, u, ok) ==
    /\ pc[c] = "auth"
    /\ CanRead(c)
    /\ Routes("login") = "handle_login"
    /\ request' = [request EXCEPT ![c] = LoginRequest(u, ok)]
    /\ pc' = [pc EXCEPT ![c] = "dispatch_authenticate"]
    /\ sent' = Quiet
    /\ disconnected_clients' = <<>>
    /\ UNCHANGED <<username, authenticated, message, response, clients, sockOpen, messages>>
    /\ Elsewhere

\* AuthHandler.handle_login after authenticate has returned: a failed login is
\* returned at once, a registered one goes on to broadcast_system_message
DispatchAuthDone(c) ==
    /\ pc[c] = "dispatch_authenticate"
    /\ LET u == request[c].username
           r == register_client(clients, u, c)
           rq == Call(c, "dispatch", "login", None, u)
       IN IF request[c].ok /\ r.ok
          THEN /\ clients' = r.clients
               /\ pc' = [pc EXCEPT ![c] = "dispatch_join_save"]
               /\ call' = NoCall
               /\ reply' = NoReply
          ELSE /\ clients' = clients
               /\ pc' = [pc EXCEPT ![c] = "dispatched"]
               /\ call' = rq
               /\ reply' = Reply("login_failed",
                                 IF request[c].ok THEN "already_online" ELSE "bad_credentials",
                                 <<>>)
    /\ sent' = Quiet
    /\ disconnected_clients' = <<>>
    /\ UNCHANGED <<username, authenticated, request, message, response, sockOpen, messages,
                   conversations, private_messages, private, frameVars, storeVars, clientVars>>

\* AuthHandler.handle_login from the return of _save_system_message_to_db: the
\* fan-out of the joined message, send_user_list, and then the return of the
\* login_success response to the caller of dispatch
DispatchJoinSaved(c, bad1, bad2) ==
    /\ pc[c] = "dispatch_join_save"
    /\ bad1 \subseteq Sockets(clients)
    /\ LET u == request[c].username
           b1 == broadcast_to_clients(clients, sockOpen, Quiet,
                                      SystemMessage(u, "joined"), NoConn, bad1)
       IN /\ bad2 \subseteq Sockets(b1.clients)
          /\ LET b2 == send_user_list(b1.clients, b1.sockOpen, b1.sent, bad2)
             IN /\ clients' = b2.clients
                /\ sockOpen' = b2.sockOpen
                /\ sent' = b2.sent
                /\ disconnected_clients' = b1.failed \o b2.failed
          /\ messages' = SaveSystemMessage(messages, u)
          /\ call' = Call(c, "dispatch", "login", None, u)
          /\ reply' = Reply("login_success", None, <<>>)
    /\ pc' = [pc EXCEPT ![c] = "dispatched"]
    /\ UNCHANGED <<username, authenticated, request, message, response,
                   conversations, private_messages, private, frameVars, storeVars, clientVars>>

\* the two login paths of the server, side by side: every peer stays
\* connected, every write goes through
NextLogin ==
    \/ \E c \in Conns : \E u \in LoginNames(c), ok \in BOOLEAN : AuthRecvLogin(c, u, ok)
    \/ \E c \in Conns : AuthDone(c)
    \/ \E c \in Conns : JoinSaved(c, {}, {})
    \/ \E c \in Conns : \E u \in LoginNames(c), ok \in BOOLEAN : DispatchLogin(c, u, ok)
    \/ \E c \in Conns : DispatchAuthDone(c)
    \/ \E c \in Conns : DispatchJoinSaved(c, {}, {})

SpecLogin == Init /\ [][NextLogin]_vars

\* the step in which the joined message of the login of c is fanned out
FansJoined(c) == pc[c] \in {"join_save", "dispatch_join_save"} /\ pc'[c] # pc[c]

\* C11: on both login paths the login_success response is written to the
\* caller in the step that registers the session, before the joined message
\* is fanned out; the fan-out writes the joined message and then the user
\* list to every registered session, and no login_success comes after it
C11_LoginOrder ==
    [][\A c \in Conns :
         /\ (pc[c] \in {"authenticate", "dispatch_authenticate"}
                /\ pc'[c] # pc[c]
                /\ is_client_connected(clients', request[c].username)
                /\ ~is_client_connected(clients, request[c].username))
            => sent'[c] = <<LoginSuccess(request[c].username)>>
         /\ FansJoined(c)
            => /\ response[c] = LoginSuccess(request[c].username)
               /\ reply'.type # "login_success"
               /\ \A d \in Sockets(clients) :
                     sent'[d] = <<SystemMessage(request[c].username, "joined"),
                                  UserListEnvelope(get_all_usernames(clients))>>]_vars

\* ------------------------------------------------------------ file uploads
\* file names are sequences of numbers: <<0>> stands for "f.txt", a further
\* element k for the text "_k" before the extension, <<>> for a missing name
Filenames == {<<>>, <<0>>, <<0, 1>>}

FileTypes == {"file", "image"}

\* the 'data' field of a file request: two well-formed base64 texts, one of
\* them with a line break, one with its padding missing, and an empty one
Payloads == {"cGF5", "cXE=\n", "cGF", ""}

\* the characters of the payload that are alphanumeric or one of + / =
Clean(data) == IF data = "cXE=\n" THEN "cXE=" ELSE data

\* base64.b64decode: raises binascii.Error on "cGF" (incorrect padding)
B64Valid(data) == Clean(data) \in {"cGF5", "cXE=", ""}
B64Decode(data) ==
    CASE Clean(data) = "cGF5" -> "pay"
      [] Clean(data) = "cXE=" -> "qq"
      [] OTHER -> ""

\* uploads/<owner>/<year>/<month>/<day>/<name>, on one day
Path(owner, name) == [owner |-> owner, name |-> name]

Exists(dsk, path) == path \in DOMAIN dsk

Write(dsk, path, bytes) ==
    [q \in DOMAIN dsk \cup {path} |-> IF q = path THEN bytes ELSE dsk[q]]

\* a store that keeps the name it is given
FinalName_asis(dsk, owner, filename, final, counter) == filename

\* the while loop of _save_file_to_disk: filename, then base_1, base_2, ...
\* until the name is free
RECURSIVE FinalName(_, _, _, _, _)
FinalName(dsk, owner, filename, final, counter) ==
    IF Exists(dsk, Path(owner, final))
    THEN FinalName(dsk, owner, filename, Append(filename, counter), counter + 1)
    ELSE final

\* what can go wrong between open() and the end of f.write()
Faults == {"none", "open", "write"}

\* _save_file_to_disk: the directory after the call, whether it raised, and
\* the path it returns
save_file_to_disk(dsk, owner, filename, data, fault) ==
    LET file_path == Path(owner, FinalName(dsk, owner, filename, filename, 1))
    IN IF ~B64Valid(data)
       THEN [disk |-> dsk, raised |-> "b64decode", file_path |-> file_path]
       ELSE IF fault = "open"
       THEN [disk |-> dsk, raised |-> "open", file_path |-> file_path]
       ELSE IF fault = "write"
       THEN [disk |-> Write(dsk, file_path, ""), raised |-> "write", file_path |-> file_path]
       ELSE [disk |-> Write(dsk, file_path, B64Decode(data)), raised |-> None,
             file_path |-> file_path]

\* the handling of a request ended with an exception
Raised(why) == Reply("raised", why, <<>>)

\* the file request of session c
FileCall(c, type, filename, data) ==
    [Call(c, "_process_file", type, None, None) EXCEPT !.filename = filename, !.data = data]

UploadCall(c) == FileCall(c, upload[c].type, upload[c].filename, upload[c].data)

\* the envelope broadcast_file fans out; its content is the file name
FileEnvelope(u, up) ==
    [type |-> up.type, username |-> u, filename |-> up.filename, data |-> up.data,
     file_url |-> up.file_path, file_id |-> up.file_id]

\* _save_file_message_to_db and its siblings: the row of a file message
SaveFileMessage(msgs, u, up) ==
    Append(msgs, [message_id |-> Len(msgs) + 1, created_at |-> Len(msgs) + 1,
                  user |-> u, content_type |-> up.type, file_name |-> up.filename,
                  file_url |-> up.file_path, file_id |-> up.file_id])

\* an insert that stores no row
SaveFileMetadata_skip(fs, u, up) == fs

\* _save_file_metadata_to_db: the row of the files table
SaveFileMetadata(fs, u, up) ==
    Append(fs, [file_id |-> Len(fs) + 1, user |-> u, file_name |-> up.filename,
                file_path |-> up.file_path, file_url |-> up.file_path,
                file_type |-> up.type])

CanUpload ==
    Cardinality(DOMAIN disk) + Cardinality({d \in Conns : upload[d] # NoUpload}) < MaxFiles

\* what a step of the upload leaves alone
UploadOnly ==
    UNCHANGED <<username, authenticated, request, message, response,
                conversations, private_messages, private, frameVars, clientVars, users>>

\* _handle_messages reads a file request: _process_file and broadcast_file up
\* to the await in _save_file_metadata_to_db. An exception of
\* _save_file_to_disk leaves the receive loop, and handle_client runs _cleanup
RecvFile(c, type, filename, data, fault) ==
    /\ pc[c] = "recv"
    /\ CanRead(c)
    /\ CanUpload
    /\ sent' = Quiet
    /\ disconnected_clients' = <<>>
    /\ IF filename = <<>> \/ data = ""
       THEN /\ call' = FileCall(c, type, filename, data)
            /\ reply' = NoReply
            /\ UNCHANGED <<pc, clients, sockOpen, disk, upload>>
       ELSE LET r == save_file_to_disk(disk, username[c], filename, data, fault)
            IN /\ disk' = r.disk
               /\ IF r.raised # None
                  THEN /\ Cleanup(c)
                       /\ call' = FileCall(c, type, filename, data)
                       /\ reply' = Raised(r.raised)
                       /\ UNCHANGED upload
                  ELSE /\ upload' = [upload EXCEPT ![c] =
                                       [type |-> type, filename |-> filename, data |-> data,
                                        file_path |-> r.file_path, file_id |-> 0]]
                       /\ pc' = [pc EXCEPT ![c] = "file_meta"]
                       /\ call' = NoCall
                       /\ reply' = NoReply
                       /\ UNCHANGED <<clients, sockOpen>>
    /\ UNCHANGED <<messages, files>>
    /\ UploadOnly

\* broadcast_file from the return of _save_file_metadata_to_db, which raises
\* again what the insert raised
FileMetaSaved(c, ok) ==
    /\ pc[c] = "file_meta"
    /\ sent' = Quiet
    /\ disconnected_clients' = <<>>
    /\ IF ok
       THEN /\ files' = SaveFileMetadata(files, username[c], upload[c])
            /\ upload' = [upload EXCEPT ![c].file_id = Len(files')]
            /\ pc' = [pc EXCEPT ![c] = "file_msg"]
            /\ call' = NoCall
            /\ reply' = NoReply
            /\ UNCHANGED <<clients, sockOpen>>
       ELSE /\ Cleanup(c)
            /\ upload' = [upload EXCEPT ![c] = NoUpload]
            /\ call' = UploadCall(c)
            /\ reply' = Raised("metadata")
            /\ UNCHANGED files
    /\ UNCHANGED <<messages, disk>>
    /\ UploadOnly

\* broadcast_file from the return of _save_file_message_to_db: the fan-out to
\* everybody but the sender; _process_file returns None
FileMsgSaved(c, bad) ==
    /\ pc[c] = "file_msg"
    /\ bad \subseteq Sockets(clients) \ {c}
    /\ LET b == broadcast_to_clients(clients, sockOpen, Quiet,
                                     FileEnvelope(username[c], upload[c]), c, bad)
       IN /\ clients' = b.clients
          /\ sockOpen' = b.sockOpen
          /\ sent' = b.sent
          /\ disconnected_clients' = b.failed
    /\ messages' = SaveFileMessage(messages, username[c], upload[c])
    /\ upload' = [upload EXCEPT ![c] = NoUpload]
    /\ pc' = [pc EXCEPT ![c] = "recv"]
    /\ call' = UploadCall(c)
    /\ reply' = NoReply
    /\ UNCHANGED <<disk, files>>
    /\ UploadOnly

\* broadcast_file when _save_file_message_to_db caught an exception of the
\* insert: the exception is logged and the fan-out goes on
FileMsgSaveFailed(c, bad) ==
    /\ pc[c] = "file_msg"
    /\ bad \subseteq Sockets(clients) \ {c}
    /\ LET b == broadcast_to_clients(clients, sockOpen, Quiet,
                                     FileEnvelope(username[c], upload[c]), c, bad)
       IN /\ clients' = b.clients
          /\ sockOpen' = b.sockOpen
          /\ sent' = b.sent
          /\ disconnected_clients' = b.failed
    /\ upload' = [upload EXCEPT ![c] = NoUpload]
    /\ pc' = [pc EXCEPT ![c] = "recv"]
    /\ call' = UploadCall(c)
    /\ reply' = NoReply
    /\ UNCHANGED <<messages, disk, files>>
    /\ UploadOnly

\* a receive loop that answers a type it does not know and leaves
RecvUnknown_close(c) ==
    /\ pc[c] = "recv"
    /\ CanRead(c)
    /\ call' = Call(c, "_handle_messages", "unknown", None, None)
    /\ reply' = NoReply
    /\ sent' = SendTo(Quiet, sockOpen, c, ErrorResponse("unknown_type"))
    /\ disconnected_clients' = <<>>
    /\ Cleanup(c)
    /\ UNCHANGED <<messages, storeVars, clientVars>>
    /\ UploadOnly

\* _handle_messages reads a request of a type it does not know
RecvUnknown(c) ==
    /\ pc[c] = "recv"
    /\ CanRead(c)
    /\ call' = Call(c, "_handle_messages", "unknown", None, None)
    /\ reply' = NoReply
    /\ sent' = SendTo(Quiet, sockOpen, c, ErrorResponse("unknown_type"))
    /\ disconnected_clients' = <<>>
    /\ UNCHANGED <<pc, clients, sockOpen, messages, storeVars, clientVars>>
    /\ UploadOnly

\* alice and bob are in the room, the third connection has not logged in
InitUploading ==
    /\ pc = [c \in Conns |-> IF c \in Senders THEN "recv" ELSE "auth"]
    /\ username = [c \in Conns |-> IF c \in Senders THEN UserOf(c) ELSE None]
    /\ authenticated = [c \in Conns |-> c \in Senders]
    /\ request = [c \in Conns |->
                    IF c \in Senders THEN LoginRequest(UserOf(c), TRUE) ELSE NoRequest]
    /\ message = [c \in Conns |-> None]
    /\ response = [c \in Conns |->
                     IF c \in Senders THEN LoginSuccess(UserOf(c)) ELSE NoResponse]
    /\ clients = <<[username |-> "alice", socket |-> 1], [username |-> "bob", socket |-> 2]>>
    /\ sockOpen = [c \in Conns |-> TRUE]
    /\ sent = Quiet
    /\ disconnected_clients = <<>>
    /\ messages = <<>>
    /\ InitPrivate
    /\ InitFrame
    /\ InitStore
    /\ InitClient

\* the connection that sends requests in the upload runs; the other session
\* only listens
Uploaders == {1}

\* the requests of the upload runs: file and media uploads, text without
\* content, unknown types
NextFile ==
    \/ \E c \in Uploaders, type \in FileTypes, filename \in Filenames, data \in Payloads,
          fault \in Faults : RecvFile(c, type, filename, data, fault)
    \/ \E c \in Conns, ok \in BOOLEAN : FileMetaSaved(c, ok)
    \/ \E c \in Conns : \E bad \in SUBSET Conns : FileMsgSaved(c, bad)
    \/ \E c \in Uploaders, m \in {n \in Contents : Blank(n)} : RecvText(c, m)
    \/ \E c \in Uploaders : RecvUnknown(c)
    \/ \E c \in Uploaders : DispatchUnknown(c)
    \/ \E c \in Conns : LeftSaved(c, {})

SpecFile == InitUploading /\ [][NextFile]_vars

\* the last segment turned a request of an authenticated session down
Rejected ==
    \/ call.route = "_process_message" /\ Blank(call.content)
    \/ call.route = "_process_file" /\ (call.filename = <<>> \/ call.data = "")
    \/ call.route = "_handle_messages" /\ call.type = "unknown"

\* C14: a request that is turned down (a text without content, a file
\* request without a name or without data, an unknown type) is answered on
\* the requester's socket with a login_failed, register_failed or error
\* response
C14_TypedRejection ==
    Rejected
    => /\ Len(sent[call.conn]) = 1
       /\ sent[call.conn][1].type \in {"login_failed", "register_failed", "error"}

\* the step in which _save_file_to_disk fails for a request of session c
StoreFails(c) ==
    /\ pc[c] = "recv"
    /\ call'.conn = c
    /\ call'.route = "_process_file"
    /\ reply'.type = "raised"
    /\ reply'.message \in {"b64decode", "open", "write"}

\* C16: when the payload of a file request does not decode, or the write to
\* disk fails, the requester is sent an error response, no message row is
\* stored, nothing is fanned out, and the requester's session stays
\* registered, open and served
C16_FileErrorContained ==
    [][\A c \in Conns :
         StoreFails(c)
         => /\ Len(sent'[c]) = 1
            /\ sent'[c][1].type = "error"
            /\ messages' = messages
            /\ files' = files
            /\ \A d \in Conns \ {c} : sent'[d] = <<>>
            /\ clients' = clients
            /\ sockOpen'[c]
            /\ pc'[c] = "recv"]_vars

\* the last segment completed the upload of a file with a well-formed payload
Uploaded ==
    /\ call.route = "_process_file"
    /\ reply = NoReply
    /\ call.filename # <<>>
    /\ call.data # ""
    /\ B64Valid(call.data)

\* C17: a file request with a well-formed payload is answered message_sent,
\* no two rows of the files table have one stored path, and the room history
\* has an entry of the file whose file reference leads to stored bytes equal
\* to the decoded payload
C17_FileRoundTrip ==
    Uploaded
    => /\ \E i \in 1..Len(sent[call.conn]) : sent[call.conn][i].type = "message_sent"
       /\ \A i, j \in 1..Len(files) : files[i].file_path = files[j].file_path => i = j
       /\ \E p \in DescOrders(messages, Selected(messages, 0)) :
             LET history == Latest(messages, p, DefaultLimit)
             IN \E k \in 1..Len(history) :
                   /\ history[k].content_type = call.type
                   /\ "file_url" \in DOMAIN history[k]
                   /\ Exists(disk, history[k].file_url)
                   /\ disk[history[k].file_url] = B64Decode(call.data)

\* the step in which _save_file_to_disk returns a path to session c
Stores(c) == upload[c] = NoUpload /\ upload'[c] # NoUpload

\* C18: no step removes a stored file or changes its bytes, and the path a
\* store returns is the path of no file that was on disk before and of no
\* row of the files table
C18_NeverOverwrite ==
    [][/\ \A q \in DOMAIN disk : Exists(disk', q) /\ disk'[q] = disk[q]
       /\ \A c \in Conns :
             Stores(c)
             => /\ ~Exists(disk, upload'[c].file_path)
                /\ Exists(disk', upload'[c].file_path)
                /\ disk'[upload'[c].file_path] = B64Decode(upload'[c].data)
                /\ \A i \in 1..Len(files) : files[i].file_path # upload'[c].file_path]_vars

\* alice has stored "f.txt" twice and then "f_1.txt": the three files are
\* side by side, the first two with the bytes they were given
C18_Witness ==
    /\ DOMAIN disk = {Path("alice", <<0>>), Path("alice", <<0, 1>>), Path("alice", <<0, 1, 1>>)}
    /\ disk[Path("alice", <<0>>)] = "pay"
    /\ disk[Path("alice", <<0, 1>>)] = "qq"
    /\ Len(files) = MaxFiles

\* --------------------------------------------------- the life of a session
\* the step in which the handler of c reads a request that is neither login
\* nor register, before it has authenticated
ReadsOther(c) == pc[c] = "auth" /\ request[c] = NoRequest /\ request'[c] = OtherRequest

\* C12: a request of another type on a connection that has not authenticated
\* is answered with an error, changes neither the registry nor the stored
\* messages, and leaves the connection open, unauthenticated and waiting for
\* a login
C12_UnauthenticatedRequest ==
    [][\A c \in Conns :
         ReadsOther(c)
         => /\ Len(sent'[c]) = 1
            /\ sent'[c][1].type = "error"
            /\ clients' = clients
            /\ messages' = messages
            /\ ~authenticated'[c]
            /\ sockOpen'[c]
            /\ pc'[c] = "auth"]_vars

\* the session the registry holds for connection c
OwnEntry(c) == [username |-> username[c], socket |-> c]

\* C13: the handler of a connection that has authenticated ends only in the
\* step that fans its 'left' message out, whatever took the session out of
\* the registry, and the close procedure of a connection unregisters that
\* connection's own session and no other
C13_CloseOnce ==
    [][\A c \in Conns :
         authenticated[c]
         => /\ (pc[c] # "done" /\ pc'[c] = "done") => pc[c] = "left_save"
            /\ (pc[c] = "recv" /\ pc'[c] = "left_save")
                 => EntryOf(clients, username[c]) = {OwnEntry(c)}]_vars

\* the step in which the handler of c turns a request down
Rejects(c) ==
    /\ pc[c] \in {"auth", "authenticate"}
    /\ response'[c] # response[c]
    /\ response'[c].type \in {"login_failed", "register_failed", "error"}

\* C15: a request that is turned down (a failed login, an unknown request
\* type) is answered on the requester's socket, and the connection is left
\* open with its handler still serving it
C15_RejectionKeepsOpen ==
    [][\A c \in Conns :
         Rejects(c)
         => /\ sent'[c] = <<response'[c]>>
            /\ sockOpen'[c]
            /\ pc'[c] \notin {"left_save", "done"}]_vars

\* ------------------------------------------------------------ registration
RegisterRequest(u, ok) == [type |-> "register", username |-> u, ok |-> ok]
RegisterSuccess == Envelope("register_success", None, "ok")
RegisterFailed(why) == Envelope("register_failed", None, why)

\* the names the connections ask to register: one that has an account and
\* one that has none
RegisterNames == {"alice", "dave"}

\* UsersCRUD.get_by_username
get_by_username(us, u) == {i \in 1..Len(us) : us[i] = u}

\* a users table whose username column is not unique
create_user_nounique(us, u) == [users |-> Append(us, u), raised |-> FALSE]

\* UsersCRUD.create: the commit raises IntegrityError when the username is
\* taken (Users.username is unique), the rollback leaves the table as it was
create_user(us, u) ==
    IF get_by_username(us, u) # {}
    THEN [users |-> us, raised |-> TRUE]
    ELSE [users |-> Append(us, u), raised |-> FALSE]

\* a register answer after which the connection is served as a session
RegisterAnswer_stay(c, rsp) ==
    /\ response' = [response EXCEPT ![c] = rsp]
    /\ sent' = SendTo(Quiet, sockOpen, c, rsp)
    /\ pc' = [pc EXCEPT ![c] = "recv"]
    /\ UNCHANGED <<clients, sockOpen>>

\* _handle_authentication sends the response of _handle_register and returns;
\* handle_client goes on to _cleanup
RegisterAnswer(c, rsp) ==
    /\ response' = [response EXCEPT ![c] = rsp]
    /\ sent' = SendTo(Quiet, sockOpen, c, rsp)
    /\ Cleanup(c)

\* what a step of the registration leaves alone
RegisterOnly ==
    /\ disconnected_clients' = <<>>
    /\ call' = NoCall
    /\ reply' = NoReply
    /\ UNCHANGED <<username, authenticated, message, messages, conversations,
                   private_messages, private, frameVars, clientVars, disk, files, upload>>

\* _handle_authentication reads a register request: _handle_register and
\* AuthManager.register, up to the await of get_by_username
AuthRecvRegister(c, u, ok) ==
    /\ pc[c] = "auth"
    /\ CanRead(c)
    /\ request' = [request EXCEPT ![c] = RegisterRequest(u, ok)]
    /\ IF ok
       THEN /\ pc' = [pc EXCEPT ![c] = "register_check"]
            /\ sent' = Quiet
            /\ UNCHANGED <<response, clients, sockOpen>>
       ELSE RegisterAnswer(c, RegisterFailed("empty"))
    /\ UNCHANGED users
    /\ RegisterOnly

\* AuthManager.register from the return of get_by_username, up to the await
\* of the commit in UsersCRUD.create
RegisterChecked(c) ==
    /\ pc[c] = "register_check"
    /\ IF get_by_username(users, request[c].username) # {}
       THEN RegisterAnswer(c, RegisterFailed("failed"))
       ELSE /\ pc' = [pc EXCEPT ![c] = "register_create"]
            /\ sent' = Quiet
            /\ UNCHANGED <<response, clients, sockOpen>>
    /\ UNCHANGED <<request, users>>
    /\ RegisterOnly

\* AuthManager.register from the return of UsersCRUD.create: an exception is
\* caught and makes the result False
RegisterCreated(c) ==
    /\ pc[c] = "register_create"
    /\ LET r == create_user(users, request[c].username)
       IN /\ users' = r.users
          /\ RegisterAnswer(c, IF r.raised THEN RegisterFailed("failed") ELSE RegisterSuccess)
    /\ UNCHANGED request
    /\ RegisterOnly

NextRegister ==
    \/ \E c \in Conns, u \in RegisterNames, ok \in BOOLEAN : AuthRecvRegister(c, u, ok)
    \/ \E c \in Conns : RegisterChecked(c)
    \/ \E c \in Conns : RegisterCreated(c)

SpecRegister == Init /\ [][NextRegister]_vars

\* the connections whose register call for u has returned success
Registered(u) ==
    {c \in Conns : request[c] = RegisterRequest(u, TRUE) /\ response[c] = RegisterSuccess}

\* C19: however the register calls for one username interleave, the users
\* table has at most one row of that name, at most one call returns success
\* (none if the name had an account), and every call that has returned was
\* answered register_success or register_failed
C19_RegisterRace ==
    /\ \A u \in RegisterNames \cup Users :
          /\ Cardinality(get_by_username(users, u)) <= 1
          /\ Cardinality(Registered(u)) <= 1
          /\ Registered(u) # {} => u \notin Users /\ get_by_username(users, u) # {}
    /\ \A c \in Conns :
          (request[c].type = "register" /\ pc[c] = "done")
          => /\ response[c].type \in {"register_success", "register_failed"}
             /\ ~authenticated[c]

\* one call for dave has returned success while another, which found no
\* dave either, is on its way into UsersCRUD.create, and a third has failed
C19_Witness ==
    \E c, d, e \in Conns :
        /\ response[c] = RegisterSuccess
        /\ request[d] = RegisterRequest("dave", TRUE)
        /\ pc[d] = "done"
        /\ response[d] = RegisterFailed("failed")
        /\ request[e] = RegisterRequest("dave", TRUE)
        /\ pc[e] = "register_create"

\* ---------------------------------------------------------- garbled frames
\* the peer sends up to MaxObjs frames back to back, garbage among them
InitGarbled ==
    /\ InitReceiving
    /\ messages = <<>>
    /\ InitPrivate
    /\ InitStore
    /\ InitClient
    /\ stream \in UNION {[1..n -> Objects \cup Garbage] : n \in 1..MaxObjs}
    /\ wire = Flatten(stream)
    /\ buffer = <<>>
    /\ dispatched = <<>>
    /\ looping = TRUE

SpecGarbled == InitGarbled /\ [][NextFrame]_vars

\* the connection whose receive loop is observed
Observed == 1

\* the bytes the loop has in its buffer after the read of this step
Received == buffer \o SubSeq(wire, 1, Len(wire) - Len(wire'))

\* bytes that are no UTF-8 text, or a text that cannot begin a request object
Undecodable(buf) == \E i \in 1..Len(buf) : buf[i] = "XX"
Malformed(buf) == buf # <<>> /\ buf[1] # "{"

\* the objects of the stream that come after its last piece of garbage
RECURSIVE AfterGarbage(_)
AfterGarbage(objs) ==
    IF \E i \in 1..Len(objs) : objs[i] \in Garbage
    THEN AfterGarbage(Tail(objs))
    ELSE objs

\* C20: a read that leaves malformed or undecodable bytes in the buffer is
\* answered with an error response, the buffer is dropped and the loop goes
\* on; and once every byte is read, the well-formed requests sent after the
\* garbage are the last ones dispatched
C20_MalformedFrame ==
    /\ [][(looping /\ wire' # wire /\ (Undecodable(Received) \/ Malformed(Received)))
          => /\ Len(sent'[Observed]) = 1
             /\ sent'[Observed][1].type = "error"
             /\ buffer' = <<>>
             /\ looping']_vars
    /\ [](wire = <<>> /\ (\E i \in 1..Len(stream) : stream[i] \in Garbage)
          => \E k \in 0..Len(dispatched) :
                SubSeq(dispatched, k + 1, Len(dispatched)) = AfterGarbage(stream))

\* ------------------------------------------------- the client's receive side
\* the objects a server sends: a plain one, one whose string holds a closing
\* brace, one whose string holds an escaped quote and an opening brace, one
\* whose string holds a two-byte character, and one with an object inside
ClientObjects == {"plain", "brace", "quote", "wide", "nested"}

\* the UTF-8 bytes of the JSON text of each object; "M1", "M2" are the two
\* bytes of the character "W"
Dumps(o) ==
    CASE o = "plain" -> <<"{", "x", "}">>
      [] o = "brace" -> <<"{", "\"", "}", "\"", "}">>
      [] o = "quote" -> <<"{", "\"", "\\", "\"", "{", "\"", "}">>
      [] o = "wide" -> <<"{", "\"", "M1", "M2", "\"", "}">>
      [] OTHER -> <<"{", "{", "x", "}", "}">>

RECURSIVE FlattenClient(_)
FlattenClient(objs) ==
    IF objs = <<>> THEN <<>> ELSE Dumps(Head(objs)) \o FlattenClient(Tail(objs))

\* bytes.decode('utf-8') raises when a first byte lacks its second byte or a
\* second byte stands alone
DecodesUtf8(bytes) ==
    \A i \in 1..Len(bytes) :
        /\ bytes[i] = "M1" => i < Len(bytes) /\ bytes[i + 1] = "M2"
        /\ bytes[i] = "M2" => i > 1 /\ bytes[i - 1] = "M1"

\* bytes.decode('utf-8') and str.encode('utf-8')
RECURSIVE DecodeUtf8(_)
DecodeUtf8(bytes) ==
    IF bytes = <<>> THEN <<>>
    ELSE IF Head(bytes) = "M1" THEN <<"W">> \o DecodeUtf8(Tail(Tail(bytes)))
    ELSE <<Head(bytes)>> \o DecodeUtf8(Tail(bytes))

RECURSIVE EncodeUtf8(_)
EncodeUtf8(text) ==
    IF text = <<>> THEN <<>>
    ELSE IF Head(text) = "W" THEN <<"M1", "M2">> \o EncodeUtf8(Tail(text))
    ELSE <<Head(text)>> \o EncodeUtf8(Tail(text))

\* json.loads of a text: the object it is the text of, if any
JsonLoads(text) ==
    IF \E o \in ClientObjects : DecodeUtf8(Dumps(o)) = text
    THEN CHOOSE o \in ClientObjects : DecodeUtf8(Dumps(o)) = text
    ELSE None

\* NetworkThread._extract_json_object from character i on: the first balanced
\* piece of the text that parses, and the index after it
RECURSIVE ExtractFrom(_, _, _, _, _, _)
ExtractFrom(text, i, brace_count, in_string, escape_next, start_index) ==
    IF i > Len(text) THEN [obj |-> None, index |-> 0]
    ELSE IF escape_next
         THEN ExtractFrom(text, i + 1, brace_count, in_string, FALSE, start_index)
    ELSE IF text[i] = "\\"
         THEN ExtractFrom(text, i + 1, brace_count, in_string, TRUE, start_index)
    ELSE IF text[i] = "\""
         THEN ExtractFrom(text, i + 1, brace_count, ~in_string, FALSE, start_index)
    ELSE IF in_string
         THEN ExtractFrom(text, i + 1, brace_count, in_string, FALSE, start_index)
    ELSE IF text[i] = "{"
         THEN ExtractFrom(text, i + 1, brace_count + 1, in_string, FALSE,
                          IF brace_count = 0 THEN i ELSE start_index)
    ELSE IF text[i] = "}"
         THEN IF /\ brace_count - 1 = 0
                 /\ start_index # 0
                 /\ JsonLoads(SubSeq(text, start_index, i)) # None
              THEN [obj |-> JsonLoads(SubSeq(text, start_index, i)), index |-> i]
              ELSE ExtractFrom(text, i + 1, brace_count - 1, in_string, FALSE, start_index)
    ELSE ExtractFrom(text, i + 1, brace_count, in_string, FALSE, start_index)

_extract_json_object(text) == ExtractFrom(text, 1, 0, FALSE, FALSE, 0)

\* the number of bytes receive_data drops from the buffer for the first
\* index characters of the text: it counts characters
Consumed_chars(text, index) == index

\* the number of bytes receive_data drops from the buffer for the first
\* index characters of the text: the length of their encoding
Consumed(text, index) == Len(EncodeUtf8(SubSeq(text, 1, index)))

\* the loop of receive_data over the buffer: the objects it extracts and the
\* buffer it leaves
RECURSIVE Drain(_, _)
Drain(buf, results) ==
    IF ~DecodesUtf8(buf) THEN [buffer |-> buf, results |-> results]
    ELSE LET text == DecodeUtf8(buf)
             found == _extract_json_object(text)
         IN IF found.obj = None THEN [buffer |-> buf, results |-> results]
            ELSE Drain(SubSeq(buf, Consumed(text, found.index) + 1, Len(buf)),
                       Append(results, found.obj))

\* NetworkThread.receive_data when recv yields the next n bytes
receive_data(n) ==
    /\ inflight # <<>>
    /\ n <= Len(inflight)
    /\ LET after == Drain(recv_buffer \o SubSeq(inflight, 1, n), <<>>)
       IN /\ recv_buffer' = after.buffer
          /\ received' = received \o after.results
    /\ inflight' = SubSeq(inflight, n + 1, Len(inflight))
    /\ UNCHANGED <<incoming, pages, sessionVars, privateVars, frameVars, storeVars>>

\* the server sends a client up to MaxObjs objects back to back
InitClientStream ==
    /\ InitSession
    /\ InitPrivate
    /\ InitFrame
    /\ InitStore
    /\ incoming \in UNION {[1..n -> ClientObjects] : n \in 1..MaxObjs}
    /\ inflight = FlattenClient(incoming)
    /\ recv_buffer = <<>>
    /\ received = <<>>
    /\ pages = <<>>

NextClient == \E n \in 1..Len(inflight) : receive_data(n)

SpecClient == InitClientStream /\ [][NextClient]_vars

\* C21: however the bytes of the objects are cut into reads, the objects
\* receive_data has returned are the first ones sent, in order; the receive
\* buffer and the unread bytes together are the bytes of the other ones; and
\* once every byte is read, every object has been returned
C21_ClientFraming ==
    \E k \in 0..Len(incoming) :
        /\ received = SubSeq(incoming, 1, k)
        /\ recv_buffer \o inflight = FlattenClient(SubSeq(incoming, k + 1, Len(incoming)))
        /\ inflight = <<>> => k = Len(incoming)

\* an object with an escaped quote has been returned and the next read ended
\* inside the two-byte character of the following object
C21_Witness ==
    /\ incoming = <<"quote", "wide">>
    /\ received = <<"quote">>
    /\ recv_buffer = <<"{", "\"", "M1">>

\* ------------------------------------------- private conversations, again
\* alice and bob are in the room and send private messages, to each other,
\* to themselves and to carol, who is not there; either may log out
NextPair ==
    \/ \E c \in Senders, r \in Users : HandlePrivateMessage(c, r, "hi")
    \/ \E c \in Conns : PrivLookup(c)
    \/ \E c \in Conns : PrivCreate(c)
    \/ \E c \in Conns : PrivSave(c)
    \/ \E c \in Conns : \E bad \in SUBSET Conns : PrivPush(c, bad)
    \/ \E c \in Senders : RecvLogout(c)
    \/ \E c \in Conns : LeftSaved(c, {})

SpecPair == InitUploading /\ [][NextPair]_vars

\* the conversation rows of the unordered pair of two users
RowsOf(a, b) ==
    SelectSeq(conversations, LAMBDA r : {r.user1_id, r.user2_id} = {UserId(a), UserId(b)})

\* C22: whatever the interleaving of the handlers of two users who send each
\* other a private message, the pair has one conversation row at most, the
\* stored messages of the pair carry one conversation_id, and no lookup of
\* the conversation ends the call with an exception
C22_ConcurrentGetOrCreate ==
    /\ [](\A a, b \in Users : Len(RowsOf(a, b)) <= 1)
    /\ [](\A i, j \in 1..Len(private_messages) :
             {private_messages[i].sender, private_messages[i].receiver}
                 = {private_messages[j].sender, private_messages[j].receiver}
             => private_messages[i].conversation_id
                    = private_messages[j].conversation_id)
    /\ [][\A c \in Conns : pc[c] = "priv_lookup" => pc'[c] # "recv"]_vars

\* C23: every conversation row has user1_id < user2_id, and a lookup that
\* finds no row and goes on to create one is a lookup of a pair that has no
\* row, whichever of the two users sends
C23_PairOrder ==
    /\ [](\A i \in 1..Len(conversations) :
             conversations[i].user1_id < conversations[i].user2_id)
    /\ [][\A c \in Conns :
             pc[c] = "priv_lookup" /\ pc'[c] = "priv_create"
             => RowsOf(username[c], private[c].receiver) = <<>>]_vars

\* bob's message to alice created the row, alice's answer found it
C23_Witness ==
    /\ Len(conversations) = 1
    /\ Len(private_messages) = 2
    /\ private_messages[1].sender = "bob" /\ private_messages[1].receiver = "alice"
    /\ private_messages[2].sender = "alice" /\ private_messages[2].receiver = "bob"
    /\ private_messages[2].conversation_id = conversations[1].conversation_id

\* C24: a step that pushes a private envelope writes it to the socket of the
\* receiver registered under the addressed name and to no other socket; the
\* sender's socket gets no private envelope
C24_NoEcho ==
    [][\A c \in Conns :
          pc[c] = "priv_push" /\ pc'[c] = "recv"
          => \A s \in Conns :
                sent'[s] # <<>>
                => /\ is_client_connected(clients, private[c].receiver)
                   /\ s = clients[get_client(clients, private[c].receiver)].socket
                   /\ s # c
                   /\ sent'[s] = <<PrivateEnvelope(username[c], private[c].content)>>]_vars

\* alice's message has just been pushed to bob's socket and to no other
C24_Witness ==
    /\ call.route = "handle_private_message"
    /\ call.conn = 1
    /\ reply.type = "private_message_sent"
    /\ username[1] = "alice"
    /\ sent[2] = <<PrivateEnvelope("alice", "hi")>>
    /\ sent[1] = <<>>

\* ------------------------------------------------------- failing inserts
\* alice and bob are in the room and send texts and files; the insert of a
\* message row may fail
NextSave ==
    \/ \E c \in Senders, m \in Contents : RecvText(c, m)
    \/ \E c \in Conns : \E bad \in SUBSET Conns : TextSaved(c, bad)
    \/ \E c \in Conns : \E bad \in SUBSET Conns : TextSaveFailed(c, bad)
    \/ \E c \in Uploaders, type \in FileTypes, data \in {"cGF5", "cGF"}, fault \in Faults :
          RecvFile(c, type, <<0>>, data, fault)
    \/ \E c \in Conns, ok \in BOOLEAN : FileMetaSaved(c, ok)
    \/ \E c \in Conns : \E bad \in SUBSET Conns : FileMsgSaved(c, bad)
    \/ \E c \in Conns : \E bad \in SUBSET Conns : FileMsgSaveFailed(c, bad)
    \/ \E c \in Conns : LeftSaved(c, {})

SpecSave == InitUploading /\ [][NextSave]_vars

\* the step in which broadcast_file fans the envelope of session c's file out
FansFile(c) == pc[c] = "file_msg" /\ pc'[c] = "recv"

TextInsertFails(c) == pc[c] = "msg_save" /\ pc'[c] = "recv" /\ messages' = messages

\* C26: when the insert of a room message fails, the sender is sent one error
\* response and stays registered, open and served, and no other session is
\* sent the envelope; every text envelope a session is sent is the envelope
\* of the newest stored message
C26_SaveErrorContained ==
    [][/\ \A c \in Conns :
             TextInsertFails(c)
             => /\ Len(sent'[c]) = 1
                /\ sent'[c][1].type = "error"
                /\ is_client_connected(clients', username[c])
                /\ sockOpen'[c]
                /\ \A s \in Conns \ {c} : sent'[s] = <<>>
       /\ \A s \in Conns : \A k \in 1..Len(sent'[s]) :
             sent'[s][k].type = "text"
             => /\ Len(messages') > Len(messages)
                /\ messages'[Len(messages')].content = sent'[s][k].content]_vars

\* ------------------------------------------------ registration in the room
\* connections register, log in, talk and leave
NextJoin ==
    \/ \E c \in Conns, u \in RegisterNames, ok \in BOOLEAN : AuthRecvRegister(c, u, ok)
    \/ \E c \in Conns : RegisterChecked(c)
    \/ \E c \in Conns : RegisterCreated(c)
    \/ \E c \in Conns : \E u \in LoginNames(c) : AuthRecvLogin(c, u, TRUE)
    \/ \E c \in Conns : AuthDone(c)
    \/ \E c \in Conns : JoinSaved(c, {}, {})
    \/ \E c \in Conns, m \in Contents : RecvText(c, m)
    \/ \E c \in Conns : TextSaved(c, {})
    \/ \E c \in Conns : RecvClosed(c)
    \/ \E c \in Conns : LeftSaved(c, {})

SpecJoin == Init /\ [][NextJoin]_vars

\* C27: a connection that was answered register_success is not authenticated,
\* has no entry in the registry and is not in the receive loop; the step that
\* answers it sends nothing to any other connection; and no later step
\* handles a request of it, sends it anything or stores a message
\* of it
C27_RegisterNoAuth ==
    /\ [](\A c \in Conns :
             response[c] = RegisterSuccess
             => /\ ~authenticated[c]
                /\ username[c] = None
                /\ \A i \in 1..Len(clients) : clients[i].socket # c
                /\ pc[c] = "done"
                /\ ~sockOpen[c])
    /\ [][\A c \in Conns :
             (response'[c] = RegisterSuccess /\ response[c] # RegisterSuccess)
             => /\ sent'[c] = <<RegisterSuccess>>
                /\ \A d \in Conns \ {c} : sent'[d] = <<>>
                /\ messages' = messages
                /\ clients' = clients]_vars
    /\ [][\A c \in Conns :
             response[c] = RegisterSuccess
             => /\ pc'[c] = pc[c]
                /\ message'[c] = message[c]
                /\ sent'[c] = <<>>
                /\ call'.conn # c]_vars

\* connection 3 has registered dave while alice is in the room
C27_Witness ==
    /\ response[3] = RegisterSuccess
    /\ request[3] = RegisterRequest("dave", TRUE)
    /\ is_client_connected(clients, "alice")
    /\ pc[1] = "recv"
    /\ Len(messages) > 0

\* ------------------------------------------------------ the end of a session
\* connections log in, talk, log out or are closed by their peers
NextLeave ==
    \/ \E c \in Conns : \E u \in LoginNames(c) : AuthRecvLogin(c, u, TRUE)
    \/ \E c \in Conns : AuthDone(c)
    \/ \E c \in Conns : JoinSaved(c, {}, {})
    \/ \E c \in Conns, m \in Contents : RecvText(c, m)
    \/ \E c \in Conns : TextSaved(c, {})
    \/ \E c \in Conns : RecvLogout(c)
    \/ \E c \in Conns : RecvClosed(c)
    \/ \E c \in Conns : LeftSaved(c, {})

\* the insert of the 'left' message that _cleanup awaits returns or raises in
\* the end, and the event loop then resumes _cleanup
SpecLeave ==
    Init /\ [][NextLeave]_vars /\ \A c \in Conns : WF_vars(LeftSaved(c, {}))

\* the session of connection c has left the receive loop
Left(c) == pc[c] \in {"left_save", "done"}

\* the session of connection c is closed
Closed(c) ==
    /\ pc[c] = "done"
    /\ ~sockOpen[c]
    /\ \A i \in 1..Len(clients) : clients[i].socket # c

Unknown(c) == pc[c] = "recv" /\ call'.conn = c /\ call'.type = "unknown"

\* C30: a request of an unknown type is answered with an error, by the
\* receive loop on the socket and by the dispatcher in what it returns;
\* nothing is written to another socket; the registry, the tables and the
\* disk are as before; and the session is still authenticated, open and in
\* its receive loop
C30_UnknownType ==
    [][\A c \in Conns :
          Unknown(c)
          => /\ \/ call'.route = "_handle_messages"
                   /\ sent'[c] = <<ErrorResponse("unknown_type")>>
                \/ call'.route = "dispatch" /\ reply'.type = "error"
             /\ \A d \in Conns \ {c} : sent'[d] = <<>>
             /\ clients' = clients
             /\ messages' = messages
             /\ <<conversations, private_messages, users, disk, files>>'
                    = <<conversations, private_messages, users, disk, files>>
             /\ authenticated'[c]
             /\ username'[c] = username[c]
             /\ sockOpen'[c]
             /\ pc'[c] = "recv"]_vars

\* alice's request of an unknown type has been answered with an error after
\* one of her uploads was stored
C30_Witness ==
    /\ call.conn = 1
    /\ call.route = "_handle_messages"
    /\ call.type = "unknown"
    /\ sent[1] = <<ErrorResponse("unknown_type")>>
    /\ Len(messages) = 1
    /\ Len(files) = 1
    /\ is_client_connected(clients, "alice")

\* ------------------------------------------------------------ authenticate
\* the usernames and passwords of the login attempts: empty, of an account,
\* of no account
AuthNames == {"", "alice", "bob", "dave"}
Passwords == {"", "pw1", "pw2", "pw3"}

\* PasswordUtils.hash_password: PBKDF2 with the one salt of the configuration
hash_password(password) == <<"pbkdf2", password>>

\* Users.password_hash of the accounts: alice and carol chose one password
password_hash(u) == IF u = "bob" THEN hash_password("pw2") ELSE hash_password("pw1")

\* PasswordUtils.verify_password
verify_password(password, hashed_password) == hash_password(password) = hashed_password

\* what can go wrong in the session block of authenticate
AuthFaults == {"none", "session", "query"}

\* authenticate without the except clause
authenticate_nocatch(accounts, u, password, fault) ==
    IF u = "" \/ password = "" THEN "False"
    ELSE IF fault # "none" THEN "raised"
    ELSE IF get_by_username(accounts, u) = {} THEN "None"
    ELSE IF verify_password(password, password_hash(u)) THEN "True" ELSE "False"

\* AuthManager.authenticate: what the call returns; 'user and ...' is None
\* when there is no such user
authenticate(accounts, u, password, fault) ==
    IF u = "" \/ password = "" THEN "False"
    ELSE IF fault # "none" THEN "False"
    ELSE IF get_by_username(accounts, u) = {} THEN "None"
    ELSE IF verify_password(password, password_hash(u)) THEN "True" ELSE "False"

\* a call of authenticate and its return
Authenticate(u, password, fault) ==
    /\ call = NoCall
    /\ call' = [conn |-> NoConn, route |-> "authenticate", type |-> "login",
                username |-> u, password |-> password, fault |-> fault]
    /\ reply' = Reply(authenticate(users, u, password, fault), None, <<>>)
    /\ UNCHANGED <<sessionVars, conversations, private_messages, private, frameVars,
                   storeVars, clientVars>>

\* some of the accounts exist
InitAuth ==
    /\ InitSession
    /\ InitPrivate
    /\ InitFrame
    /\ InitClient
    /\ users \in {SubSeq(<<"alice", "bob", "carol">>, 1, n) : n \in 0..3}
    /\ disk = <<>>
    /\ files = <<>>
    /\ upload = [c \in Conns |-> NoUpload]

NextAuth == \E u \in AuthNames, password \in Passwords, fault \in AuthFaults :
                Authenticate(u, password, fault)

SpecAuth == InitAuth /\ [][NextAuth]_vars

\* C31: authenticate does not raise; for an empty username or password, a
\* username of no account, a password whose hash is not the stored one, or a
\* failure of the session or the query, what it returns is false or None;
\* and it returns true only for an account whose stored hash is the hash of
\* the password given
C31_AuthenticateTotal ==
    call.route = "authenticate" =>
        /\ reply.type \in {"True", "False", "None"}
        /\ (\/ call.username = ""
            \/ call.password = ""
            \/ call.fault # "none"
            \/ get_by_username(users, call.username) = {}
            \/ hash_password(call.password) # password_hash(call.username))
           => reply.type \in {"False", "None"}
        /\ reply.type = "True"
           => /\ get_by_username(users, call.username) # {}
              /\ hash_password(call.password) = password_hash(call.username)

\* the query failed for a login of bob with his password
C31_Witness ==
    /\ call.route = "authenticate"
    /\ call.username = "bob"
    /\ call.password = "pw2"
    /\ call.fault = "query"
    /\ Len(users) = 3
    /\ reply.type = "False"

\* ---------------------------------------------------- unregister, twice
\* C32: on every registry the server gets into, unregister_client of a name
\* that has no entry changes neither the registry nor a socket; of a name that
\* has one it deletes that entry only and closes the socket of that entry
\* only; and a second call for the name changes nothing the first has left
C32_UnregisterIdempotent ==
    \A u \in Users :
        LET once == unregister_client(clients, sockOpen, u)
            twice == unregister_client(once.clients, once.sockOpen, u)
        IN /\ twice = once
           /\ ~is_client_connected(clients, u)
              => once = [clients |-> clients, sockOpen |-> sockOpen]
           /\ is_client_connected(clients, u)
              => /\ ~is_client_connected(once.clients, u)
                 /\ once.clients = SelectSeq(clients, LAMBDA e : e.username # u)
                 /\ \A s \in Conns :
                       once.sockOpen[s] =
                           (sockOpen[s] /\ s # clients[get_client(clients, u)].socket)

\* _cleanup has unregistered alice, whose socket is closed, and bob is still
\* registered: a call for alice is a second call, a call for bob a first one
C32_Witness ==
    /\ pc[1] = "left_save"
    /\ username[1] = "alice"
    /\ ~is_client_connected(clients, "alice")
    /\ ~sockOpen[1]
    /\ is_client_connected(clients, "bob")
    /\ sockOpen[clients[get_client(clients, "bob")].socket]

\* ------------------------------------------------- ChatServer, one thread
\* ------------------------------------------------- per connection
\* the loops of the broadcast and send_user_list methods: one write to the
\* socket of every entry of ChatServer.clients
ChatFan(cl, sn, m) ==
    [s \in Conns |-> IF \E i \in 1..Len(cl) : cl[i].socket = s THEN Append(sn[s], m)
                     ELSE sn[s]]

\* ChatServer.remove_client: closes the socket registered under the name,
\* deletes the entry, tells the others the name has left and sends them the
\* user list
remove_client(cl, so, sn, u) ==
    IF u \notin Keys(cl) THEN [clients |-> cl, sockOpen |-> so, sent |-> sn]
    ELSE LET rest == Remove(cl, u)
         IN [clients |-> rest,
             sockOpen |-> [so EXCEPT ![cl[get_client(cl, u)].socket] = FALSE],
             sent |-> ChatFan(rest, ChatFan(rest, sn, SystemMessage(u, "left")),
                              UserListEnvelope(get_all_usernames(rest)))]

\* what a step of a ChatServer thread leaves alone
ChatOnly ==
    /\ disconnected_clients' = <<>>
    /\ UNCHANGED <<authenticated, request, message, messages>>
    /\ Elsewhere

\* handle_client reads a login request in its first loop. A login that is
\* turned down answers login_failed, closes the connection's own socket and
\* returns, and the finally clause calls remove_client with the name asked for
ChatLogin(c, u, ok) ==
    /\ pc[c] = "auth"
    /\ CanRead(c)
    /\ username' = [username EXCEPT ![c] = u]
    /\ IF ok /\ u \notin Keys(clients)
       THEN LET cl == Append(clients, [username |-> u, socket |-> c])
            IN /\ clients' = cl
               /\ response' = [response EXCEPT ![c] = LoginSuccess(u)]
               /\ sent' = ChatFan(cl, ChatFan(cl, SendTo(Quiet, sockOpen, c, LoginSuccess(u)),
                                              UserListEnvelope(get_all_usernames(cl))),
                                  SystemMessage(u, "joined"))
               /\ pc' = [pc EXCEPT ![c] = "recv"]
               /\ UNCHANGED sockOpen
       ELSE LET why == IF ok THEN "already_online" ELSE "bad_credentials"
                r == remove_client(clients, Close(sockOpen, c),
                                   SendTo(Quiet, sockOpen, c, LoginFailed(why)), u)
            IN /\ clients' = r.clients
               /\ sockOpen' = r.sockOpen
               /\ sent' = r.sent
               /\ response' = [response EXCEPT ![c] = LoginFailed(why)]
               /\ pc' = [pc EXCEPT ![c] = "done"]
    /\ ChatOnly

\* the first loop reads a request of another type and answers '请先登录'
ChatLoginOther(c) ==
    /\ pc[c] = "auth"
    /\ CanRead(c)
    /\ sent' = SendTo(Quiet, sockOpen, c, ErrorResponse("login_first"))
    /\ UNCHANGED <<pc, username, clients, sockOpen, response>>
    /\ ChatOnly

\* the first loop reads a logout request, the end of the stream, or a frame
\* whose handling raises an exception that is no JSONDecodeError (bytes that
\* are no UTF-8, a JSON text that is no object): break, and the second loop
\* begins
ChatLoginBreak(c) ==
    /\ pc[c] = "auth"
    /\ CanRead(c)
    /\ pc' = [pc EXCEPT ![c] = "recv"]
    /\ sent' = Quiet
    /\ UNCHANGED <<username, clients, sockOpen, response>>
    /\ ChatOnly

\* the second loop reads refresh_users: send_user_list_to_client
ChatRefresh(c) ==
    /\ pc[c] = "recv"
    /\ CanRead(c)
    /\ sent' = SendTo(Quiet, sockOpen, c, UserListEnvelope(get_all_usernames(clients)))
    /\ UNCHANGED <<pc, username, clients, sockOpen, response>>
    /\ ChatOnly

\* the second loop reads a message: handle_message, which returns at once
\* for a thread without a registered name, and broadcast_message
ChatMessage(c, content) ==
    /\ pc[c] = "recv"
    /\ CanRead(c)
    /\ sent' = IF username[c] = None \/ username[c] \notin Keys(clients) \/ content = ""
               THEN Quiet
               ELSE ChatFan(clients, Quiet, Envelope("message", username[c], content))
    /\ UNCHANGED <<pc, username, clients, sockOpen, response>>
    /\ ChatOnly

\* the second loop reads a logout request or the end of the stream, or its
\* read raises on a socket the server has closed: the thread leaves the loop,
\* and remove_client is called when the thread has a name
ChatLeave(c) ==
    /\ pc[c] = "recv"
    /\ LET r == IF username[c] = None
                THEN [clients |-> clients, sockOpen |-> sockOpen, sent |-> Quiet]
                ELSE remove_client(clients, sockOpen, Quiet, username[c])
       IN /\ clients' = r.clients
          /\ sockOpen' = r.sockOpen
          /\ sent' = r.sent
    /\ pc' = [pc EXCEPT ![c] = "done"]
    /\ UNCHANGED <<username, response>>
    /\ ChatOnly

NextChat ==
    \/ \E c \in Conns : \E u \in LoginNames(c), ok \in BOOLEAN : ChatLogin(c, u, ok)
    \/ \E c \in Conns : ChatLoginOther(c)
    \/ \E c \in Conns : ChatLoginBreak(c)
    \/ \E c \in Conns : ChatRefresh(c)
    \/ \E c \in Conns, m \in Contents : ChatMessage(c, m)
    \/ \E c \in Conns : ChatLeave(c)

SpecChat == Init /\ [][NextChat]_vars

\* the step in which the login of connection c is turned down
LoginRejected(c) == pc[c] = "auth" /\ response'[c].type = "login_failed"

\* C33: the step that turns a login down, the teardown of the rejected
\* connection included, leaves the registry as it was and closes the socket
\* of no registered session
C33_RejectedLoginKeepsSession ==
    [][\A c \in Conns :
          LoginRejected(c)
          => /\ clients' = clients
             /\ \A i \in 1..Len(clients) :
                   sockOpen'[clients[i].socket] = sockOpen[clients[i].socket]]_vars

\* C37: no step sends a user list to a connection whose login has not been
\* answered login_success
C37_LoopNeedsLogin ==
    [][\A c \in Conns :
          response'[c].type # "login_success"
          => \A k \in 1..Len(sent'[c]) : sent'[c][k].type # "user_list"]_vars

\* ------------------------------------------------- paging the room history
\* the message_ids of the rows the pages of the run hold, page by page
PagedIds == [k \in 1..Len(pages) |-> Ids(pages[k])]

\* C34: in a paging run no row is returned twice, and once the run has ended
\* with an empty page every row of the table has been returned
C34_PagingComplete ==
    /\ \A k \in 1..Len(pages) :
          /\ Cardinality(PagedIds[k]) = Len(pages[k])
          /\ \A j \in 1..Len(pages) : j # k => PagedIds[j] \cap PagedIds[k] = {}
    /\ (pages # <<>> /\ pages[Len(pages)] = <<>>)
       => UNION {PagedIds[k] : k \in 1..Len(pages)} = 1..Len(messages)

\* ------------------------------------------------- cleanup after eviction
\* the step in which the handler of c leaves its receive loop and runs
\* _cleanup
CleansUp(c) == pc[c] = "recv" /\ pc'[c] \in {"left_save", "done"}

\* C35: the cleanup of a connection leaves every session registered by
\* another connection in the registry, with its socket as it was
C35_CleanupOwnEntry ==
    [][\A c \in Conns :
          CleansUp(c)
          => \A i \in 1..Len(clients) :
                clients[i].socket # c
                => /\ clients[i] \in EntryOf(clients', clients[i].username)
                   /\ sockOpen'[clients[i].socket] = sockOpen[clients[i].socket]]_vars

\* ------------------------------------------------- the sender of a message
\* RequestDispatcher.dispatch of a text request read from the socket of c
\* whose username field is u: MessageHandler.handle_message, with the save
\* and the fan-out of broadcast_message
DispatchText(c, u, content, bad) ==
    /\ Serving(c)
    /\ CanStore
    /\ Routes("text") = "handle_message"
    /\ bad \subseteq Sockets(clients) \ {c}
    /\ call' = Call(c, "dispatch", "text", None, content)
    /\ IF u = None \/ ~is_client_connected(clients, u)
       THEN /\ reply' = Reply("error", "not_logged_in", <<>>)
            /\ sent' = Quiet
            /\ disconnected_clients' = <<>>
            /\ UNCHANGED <<clients, sockOpen, messages>>
       ELSE IF Strip(content) = ""
       THEN /\ reply' = Reply("error", "empty_content", <<>>)
            /\ sent' = Quiet
            /\ disconnected_clients' = <<>>
            /\ UNCHANGED <<clients, sockOpen, messages>>
       ELSE LET b == broadcast_to_clients(clients, sockOpen, Quiet,
                                          TextMessage(u, content), c, bad)
            IN /\ reply' = Reply("message_sent", None, <<>>)
               /\ clients' = b.clients
               /\ sockOpen' = b.sockOpen
               /\ sent' = b.sent
               /\ disconnected_clients' = b.failed
               /\ messages' = SaveTextMessage(messages, u, content)
    /\ UNCHANGED <<pc, username, authenticated, request, message, response,
                   conversations, private_messages, private, frameVars, storeVars,
                   clientVars>>

NextSender ==
    \/ \E c \in Conns : \E u \in LoginNames(c), ok \in BOOLEAN : AuthRecvLogin(c, u, ok)
    \/ \E c \in Conns : AuthDone(c)
    \/ \E c \in Conns : JoinSaved(c, {}, {})
    \/ \E c \in Conns, m \in Contents : RecvText(c, m)
    \/ \E c \in Conns : TextSaved(c, {})
    \/ \E c \in Conns, u \in Users \cup {None}, m \in Contents : DispatchText(c, u, m, {})

SpecSender == Init /\ [][NextSender]_vars

\* the step that saves and fans out a room message of connection c
SendsText(c) ==
    \/ pc[c] = "msg_save" /\ pc'[c] = "recv"
    \/ call'.route = "dispatch" /\ call'.conn = c /\ reply'.type = "message_sent"

\* C36: the text envelopes a connection's message is fanned out in, and the
\* row saved for it, carry the name the connection authenticated as
C36_SenderIsSession ==
    [][\A c \in Conns :
          SendsText(c)
          => /\ \A s \in Conns : \A k \in 1..Len(sent'[s]) :
                   sent'[s][k].type = "text" => sent'[s][k].username = username[c]
             /\ Len(messages') > Len(messages)
                  => messages'[Len(messages')].user = username[c]]_vars

\* ------------------------------------------------- the user list after a
\* ------------------------------------------------- session has ended
\* connections log in, log out or are closed by their peers
NextTold ==
    \/ \E c \in Conns : \E u \in LoginNames(c) : AuthRecvLogin(c, u, TRUE)
    \/ \E c \in Conns : AuthDone(c)
    \/ \E c \in Conns : JoinSaved(c, {}, {})
    \/ \E c \in Conns : RecvLogout(c)
    \/ \E c \in Conns : RecvClosed(c)
    \/ \E c \in Conns : LeftSaved(c, {})

\* a handler whose await has returned: the step the event loop runs next
Resume ==
    \E c \in Conns : AuthDone(c) \/ JoinSaved(c, {}, {}) \/ LeftSaved(c, {})

\* the awaits of the handlers return in the end, and the event loop goes on
\* resuming handlers as long as one is ready; no handler resumes twice from
\* one await, so every ready handler is resumed. No peer is obliged to send
\* a request
SpecTold == Init /\ [][NextTold]_vars /\ WF_vars(Resume)

\* the session of user u has been unregistered
Departed(u) ==
    /\ ~is_client_connected(clients, u)
    /\ \E c \in Conns : authenticated[c] /\ username[c] = u /\ Left(c)

\* the last step sent socket s a user list without the name u
Told(s, u) ==
    \E k \in 1..Len(sent[s]) :
        /\ sent[s][k].type = "user_list"
        /\ \A j \in 1..Len(sent[s][k].users) : sent[s][k].users[j] # u

\* C38: once the session of u is unregistered, every session that stays
\* registered is sent, in the end, a user list without u (unless u has come
\* back before)
C38_UserListAfterLeave ==
    \A u \in Users, s \in Conns :
        (Departed(u) /\ s \in Sockets(clients))
        ~> (s \notin Sockets(clients) \/ is_client_connected(clients, u) \/ Told(s, u))

\* ------------------------------------------------- the answer to a private
\* ------------------------------------------------- request and its row
\* send_private_message of session c has left its session block: the row of
\* its request is in private_messages and the conversation points at it
Saved(c) == pc[c] = "priv_push"

\* the step in which handle_private_message answers a request of session c
AnswersPrivate(c) ==
    /\ pc'[c] = "recv"
    /\ call'.conn = c
    /\ call'.route = "handle_private_message"
    /\ \/ pc[c] \in {"priv_lookup", "priv_create", "priv_save", "priv_push"}
       \/ pc[c] = "recv" /\ <<call', reply'>> # <<call, reply>>

\* C39: the handling of a private request saves at most one row, the one
\* the conversation then points at; a request answered with error has saved
\* none, and a request answered private_message_sent has saved one
C39_AnswerMatchesRow ==
    [][\A c \in Conns :
          /\ (~Saved(c) /\ Saved(c)')
               => /\ Len(private_messages') = Len(private_messages) + 1
                  /\ private_messages'[Len(private_messages')].sender = username[c]
                  /\ private_messages'[Len(private_messages')].content = private[c].content
          /\ (pc[c] # "priv_save" /\ pc[c] = pc'[c] /\ call'.conn = c)
               => private_messages' = private_messages
          /\ (AnswersPrivate(c) /\ reply'.type = "error")
               => /\ ~Saved(c)
                  /\ UNCHANGED <<private_messages, conversations>>
          /\ (AnswersPrivate(c) /\ reply'.type = "private_message_sent")
               => Saved(c)]_vars

====
